---- MODULE Spec2Model ----
(***************************************************************************)
(* Oware rules engine (board.py, rules.py, game.py).                       *)
(*                                                                         *)
(* Python objects are kept in a heap: every Pit object and every scores    *)
(* list has an identity, a Board holds references to them.  Pit indices,   *)
(* player ids and list positions are 0-based as in the source; a Python    *)
(* list of length n is a function with domain 0..n-1.  The ordered lists   *)
(* of pit indices returned by player_pit_indices and legal_moves are       *)
(* sequences.                                                              *)
(***************************************************************************)
EXTENDS Integers, Sequences, FiniteSets, TLC

VARIABLES
    heap,   \* the Pit objects (heap.pit) and scores lists (heap.list)
    b,      \* the live Board
    c,      \* a clone of it, or NoBoard
    budget, \* calls still allowed in a bounded exploration, -1: no limit
    gui,    \* SimpleOwareGUI fields, started (the game screen is set up), the
            \* source pits of the animations under way (flashing) and the
            \* number of pending _execute_cpu_turn timers
    cli,    \* simple_cli: its local player and whether its loop still runs
    last    \* the last call: operation, arguments, result, boards before it

vars == <<heap, b, c, budget, gui, cli, last>>

(* -------- bounds of the explored configurations -------- *)
MaxPitsPerSide == 2
MaxInitialStones == 2
MaxStones == 8
MaxCloneCalls == 3
MaxExampleCalls == 4
MaxPlayPitsPerSide == 3
MaxImportCalls == 2
MaxLoadedStones == 2
MaxCpuCalls == 2
MaxCpuStones == 16
MaxGuiCalls == 6
MaxSearchCalls == 2
MaxTimerCalls == 8

(* -------- program constants -------- *)
DefaultPitsPerSide == 6
DefaultInitialStones == 4
HardDepth == 4          \* max_depth of the Hard tier
OtherDepth == 1         \* max_depth of the other tiers
OpeningStones == 4      \* the 4 of 'board.total_pits * 4' in get_move
WinScore == 24          \* a score above it ends the search
NoMove == -1            \* get_move's result when there is no legal move
None == -2              \* Python's None as the move of a minimax result
Infinity == 999         \* float('inf'); float('-inf') is -Infinity

NoBoard == [none |-> TRUE]
Players == {0, 1}

(* -------- Python list helpers -------- *)
ListLen(l) == Cardinality(DOMAIN l)

RECURSIVE SumAt(_, _)
\* sum(f[i] for i in idxs), idxs an ordered list of indices
SumAt(f, idxs) ==
    IF idxs = <<>> THEN 0 ELSE f[Head(idxs)] + SumAt(f, Tail(idxs))

Range(s) == {s[k] : k \in DOMAIN s}

\* the value of a one-element set: The({e(x) : x \in {v}}) is e with x bound
\* to the value of v, computed once
The(S) == CHOOSE v \in S : TRUE

(* -------- board.py -------- *)

\* Pit.take_all on the Pit object o of heap h
take_all(h, o) == [ret |-> h.pit[o], heap |-> [h EXCEPT !.pit[o] = 0]]

\* Pit.add
add(h, o, n) == [h EXCEPT !.pit[o] = @ + n]

\* the n lowest object ids not allocated in the object table t
RECURSIVE FreshIds(_, _, _)
FreshIds(t, n, from) ==
    IF n = 0 THEN <<>>
    ELSE IF from \in DOMAIN t THEN FreshIds(t, n, from + 1)
    ELSE <<from>> \o FreshIds(t, n - 1, from + 1)

\* [Pit(vals[i]) for i in range(len(vals))]: allocates one Pit per value
NewPits(h, vals) ==
    LET n == ListLen(vals)
        ids == FreshIds(h.pit, n, 0)
    IN [refs |-> [i \in 0..(n - 1) |-> ids[i + 1]],
        heap |-> [h EXCEPT !.pit =
                    [o \in (DOMAIN h.pit) \cup Range(ids) |->
                        IF o \in DOMAIN h.pit THEN h.pit[o]
                        ELSE vals[(CHOOSE k \in 1..n : ids[k] = o) - 1]]]]

\* a new two-element list object holding the values of vals
NewList(h, vals) ==
    LET id == FreshIds(h.list, 1, 0)[1]
    IN [ref |-> id,
        heap |-> [h EXCEPT !.list =
                    [o \in (DOMAIN h.list) \cup {id} |->
                        IF o = id THEN vals ELSE h.list[o]]]]

\* Board.__init__
Board(h, pits_per_side, initial_stones) ==
    LET total_pits == pits_per_side * 2
        p == NewPits(h, [i \in 0..(total_pits - 1) |-> initial_stones])
        s == NewList(p.heap, [k \in 0..1 |-> 0])
    IN [ret |-> [pits_per_side |-> pits_per_side,
                 initial_stones |-> initial_stones,
                 total_pits |-> total_pits,
                 pits |-> p.refs,
                 scores |-> s.ref],
        heap |-> s.heap]

\* [p.stones for p in board.pits]
PlainPits(h, board) == [i \in DOMAIN board.pits |-> h.pit[board.pits[i]]]

\* list(board.scores) read as a value
ScoresOf(h, board) == h.list[board.scores]

\* a clone that copies the list of pits but shares the Pit objects
cloneShallow(h, self) ==
    LET s == NewList(h, ScoresOf(h, self))
    IN [ret |-> [pits_per_side |-> self.pits_per_side,
                 initial_stones |-> self.initial_stones,
                 total_pits |-> self.total_pits,
                 pits |-> self.pits,
                 scores |-> s.ref],
        heap |-> s.heap]

\* Board.clone: fresh Pit objects and a fresh scores list
clone(h, self) ==
    LET p == NewPits(h, PlainPits(h, self))
        s == NewList(p.heap, ScoresOf(h, self))
    IN [ret |-> [pits_per_side |-> self.pits_per_side,
                 initial_stones |-> self.initial_stones,
                 total_pits |-> self.total_pits,
                 pits |-> p.refs,
                 scores |-> s.ref],
        heap |-> s.heap]

pit_owner(board, pit_index) ==
    IF pit_index < board.pits_per_side THEN 0 ELSE 1

\* list(range(0, pits_per_side)) / list(range(pits_per_side, total_pits))
player_pit_indices(board, player) ==
    IF player = 0
    THEN [k \in 1..board.pits_per_side |-> k - 1]
    ELSE [k \in 1..(board.total_pits - board.pits_per_side) |->
             board.pits_per_side + k - 1]

total_stones_for_player(h, board, player) ==
    SumAt(PlainPits(h, board), player_pit_indices(board, player))

\* an empty-side test that never finds a side empty
is_empty_sideNever(h, board, player) == FALSE

is_empty_side(h, board, player) ==
    total_stones_for_player(h, board, player) = 0

\* a sow whose first stone goes back into the source pit
RECURSIVE sow_from_loopFromSource(_, _, _, _)
sow_from_loopFromSource(h, board, idx, seeds) ==
    IF seeds > 0
    THEN LET h1 == add(h, board.pits[idx], 1)
         IN IF seeds = 1 THEN [idx |-> idx, heap |-> h1]
            ELSE sow_from_loopFromSource(h1, board, (idx + 1) % board.total_pits,
                                         seeds - 1)
    ELSE [idx |-> idx, heap |-> h]

\* a sow that skips the source pit when it laps the board
RECURSIVE sow_from_loopSkipSource(_, _, _, _, _)
sow_from_loopSkipSource(h, board, idx, seeds, source) ==
    IF seeds > 0
    THEN LET step == (idx + 1) % board.total_pits
             nidx == IF step = source THEN (step + 1) % board.total_pits ELSE step
         IN sow_from_loopSkipSource(add(h, board.pits[nidx], 1), board, nidx,
                                    seeds - 1, source)
    ELSE [idx |-> idx, heap |-> h]

sow_from_loopSkipping(h, board, idx, seeds) ==
    sow_from_loopSkipSource(h, board, idx, seeds, idx)

RECURSIVE sow_from_loop(_, _, _, _)
\* while seeds > 0: idx = (idx + 1) % total_pits; pits[idx].add(1); seeds -= 1
sow_from_loop(h, board, idx, seeds) ==
    IF seeds > 0
    THEN LET nidx == (idx + 1) % board.total_pits
         IN sow_from_loop(add(h, board.pits[nidx], 1), board, nidx, seeds - 1)
    ELSE [idx |-> idx, heap |-> h]

\* Board.sow_from: returns (index of the last pit sown into, its count)
sow_from(h, board, pit_index) ==
    LET t == take_all(h, board.pits[pit_index])
    IN IF t.ret = 0
       THEN [idx |-> pit_index, count |-> 0, heap |-> t.heap]
       ELSE LET r == sow_from_loop(t.heap, board, pit_index, t.ret)
            IN [idx |-> r.idx,
                count |-> r.heap.pit[board.pits[r.idx]],
                heap |-> r.heap]

(* -------- rules.py -------- *)

opponent(p) == 1 - p

RECURSIVE _sow_list_loop(_, _, _)
\* while seeds > 0: idx = (idx + 1) % len(pits); pits[idx] += 1; seeds -= 1
_sow_list_loop(pits, idx, seeds) ==
    IF seeds > 0
    THEN LET nidx == (idx + 1) % ListLen(pits)
         IN _sow_list_loop([pits EXCEPT ![nidx] = @ + 1], nidx, seeds - 1)
    ELSE [idx |-> idx, pits |-> pits]

\* _sow_list works on a copy of the list it is given
_sow_list(pits, start_idx) ==
    _sow_list_loop([pits EXCEPT ![start_idx] = 0], start_idx, pits[start_idx])

_owner_of(idx, pits_per_side) == IF idx < pits_per_side THEN 0 ELSE 1

RECURSIVE _capture_loop(_, _, _, _, _)
\* the 'while True' loop of _capture_on_list, entered at index i
_capture_loop(pits, i, captured, opp, pits_per_side) ==
    LET stones == pits[i]
    IN IF stones \in {2, 3}
       THEN LET npits == [pits EXCEPT ![i] = 0]
                ni == (i - 1) % ListLen(pits)
            IN IF _owner_of(ni, pits_per_side) # opp
               THEN [captured |-> captured + stones, pits |-> npits]
               ELSE _capture_loop(npits, ni, captured + stones, opp, pits_per_side)
       ELSE [captured |-> captured, pits |-> pits]

_capture_on_list(pits, last_idx, mover, pits_per_side) ==
    LET opp == opponent(mover)
    IN IF _owner_of(last_idx, pits_per_side) = opp
       THEN _capture_loop(pits, last_idx, 0, opp, pits_per_side)
       ELSE [captured |-> 0, pits |-> pits]

\* opponent's pit total after the simulated sow and capture of pit, computed
\* on the scratch list plain
SimOppTotal(plain, board, player, pit) ==
    LET sown == _sow_list(plain, pit)
        cap == _capture_on_list(sown.pits, sown.idx, player, board.pits_per_side)
    IN SumAt(cap.pits, player_pit_indices(board, opponent(player)))

\* legal_moves that sows the first candidate on the live board
legal_movesInPlace(h, board, player) ==
    LET plain == PlainPits(h, board)
        candidates == SelectSeq(player_pit_indices(board, player),
                                LAMBDA i : plain[i] > 0)
        legal == SelectSeq(candidates,
                           LAMBDA pit : SimOppTotal(plain, board, player, pit) > 0)
    IN [ret |-> IF legal # <<>> THEN legal ELSE candidates,
        heap |-> IF candidates = <<>> THEN h
                 ELSE sow_from(h, board, candidates[1]).heap]

\* every pit of the board offered as a move, whoever owns it
legal_movesAnyPit(h, board, player) ==
    [ret |-> [k \in 1..board.total_pits |-> k - 1], heap |-> h]

\* legal_moves without the starvation exception
legal_movesNoException(h, board, player) ==
    LET plain == PlainPits(h, board)
        candidates == SelectSeq(player_pit_indices(board, player),
                                LAMBDA i : plain[i] > 0)
        legal == SelectSeq(candidates,
                           LAMBDA pit : SimOppTotal(plain, board, player, pit) > 0)
    IN [ret |-> legal, heap |-> h]

\* legal_moves with 'opp_total >= 0' for 'opp_total > 0'
legal_movesNoFilter(h, board, player) ==
    LET plain == PlainPits(h, board)
        candidates == SelectSeq(player_pit_indices(board, player),
                                LAMBDA i : plain[i] > 0)
        legal == SelectSeq(candidates,
                           LAMBDA pit : SimOppTotal(plain, board, player, pit) >= 0)
    IN [ret |-> IF legal # <<>> THEN legal ELSE candidates, heap |-> h]

\* legal_moves: reads the board, writes only scratch lists
legal_moves(h, board, player) ==
    LET plain == PlainPits(h, board)
        candidates == SelectSeq(player_pit_indices(board, player),
                                LAMBDA i : plain[i] > 0)
        legal == SelectSeq(candidates,
                           LAMBDA pit : SimOppTotal(plain, board, player, pit) > 0)
    IN [ret |-> IF legal # <<>> THEN legal ELSE candidates, heap |-> h]

\* a capture loop that takes pits holding 2 only
RECURSIVE real_capture_loopTwoOnly(_, _, _, _, _)
real_capture_loopTwoOnly(h, board, i, captured_real, player) ==
    LET stones_here == h.pit[board.pits[i]]
    IN IF stones_here \in {2}
       THEN LET nh == [h EXCEPT !.pit[board.pits[i]] = 0]
                ni == (i - 1) % board.total_pits
            IN IF pit_owner(board, ni) # opponent(player)
               THEN [captured |-> captured_real + stones_here, heap |-> nh]
               ELSE real_capture_loopTwoOnly(nh, board, ni,
                                             captured_real + stones_here, player)
       ELSE [captured |-> captured_real, heap |-> h]

\* a capture loop that steps over pits not holding 2 or 3 and goes on
RECURSIVE real_capture_loopOverGaps(_, _, _, _, _)
real_capture_loopOverGaps(h, board, i, captured_real, player) ==
    LET stones_here == h.pit[board.pits[i]]
        take == stones_here \in {2, 3}
        nh == IF take THEN [h EXCEPT !.pit[board.pits[i]] = 0] ELSE h
        got == IF take THEN captured_real + stones_here ELSE captured_real
        ni == (i - 1) % board.total_pits
    IN IF pit_owner(board, ni) # opponent(player)
       THEN [captured |-> got, heap |-> nh]
       ELSE real_capture_loopOverGaps(nh, board, ni, got, player)

RECURSIVE real_capture_loopAnyOwner(_, _, _, _, _)
\* a capture loop that steps back without looking at the owner of the pit
real_capture_loopAnyOwner(h, board, i, captured_real, player) ==
    LET stones_here == h.pit[board.pits[i]]
    IN IF stones_here \in {2, 3}
       THEN real_capture_loopAnyOwner([h EXCEPT !.pit[board.pits[i]] = 0], board,
                                      (i - 1) % board.total_pits,
                                      captured_real + stones_here, player)
       ELSE [captured |-> captured_real, heap |-> h]

RECURSIVE real_capture_loop(_, _, _, _, _)
\* the in-place capture loop of apply_move on the live Pit objects
real_capture_loop(h, board, i, captured_real, player) ==
    LET stones_here == h.pit[board.pits[i]]
    IN IF stones_here \in {2, 3}
       THEN LET nh == [h EXCEPT !.pit[board.pits[i]] = 0]
                ni == (i - 1) % board.total_pits
            IN IF pit_owner(board, ni) # opponent(player)
               THEN [captured |-> captured_real + stones_here, heap |-> nh]
               ELSE real_capture_loop(nh, board, ni,
                                      captured_real + stones_here, player)
       ELSE [captured |-> captured_real, heap |-> h]

\* the argument checks that omit the empty-pit test
ValidPitNoEmptyTest(h, board, player, pit_index) ==
    /\ ~(pit_index < 0 \/ pit_index >= board.total_pits)
    /\ ~(pit_owner(board, pit_index) # player)

\* the three argument checks of apply_move, in order: TRUE when all pass
ValidPit(h, board, player, pit_index) ==
    /\ ~(pit_index < 0 \/ pit_index >= board.total_pits)
    /\ ~(pit_owner(board, pit_index) # player)
    /\ ~(h.pit[board.pits[pit_index]] = 0)

\* a veto that does not look for alternatives
GrandSlamVetoNoAlternatives(h, board, player, pit_index) ==
    SimOppTotal(PlainPits(h, board), board, player, pit_index) = 0

\* the Grand Slam check of apply_move: TRUE when the move is vetoed
GrandSlamVeto(h, board, player, pit_index) ==
    LET plain == PlainPits(h, board)
        alternatives == SelectSeq(player_pit_indices(board, player),
                                  LAMBDA i : plain[i] > 0 /\ i # pit_index)
    IN /\ SimOppTotal(plain, board, player, pit_index) = 0
       /\ \E k \in DOMAIN alternatives :
              SimOppTotal(PlainPits(h, board), board, player, alternatives[k]) > 0

\* a move whose captured stones are not credited to the mover
apply_move_realNoCredit(h, board, player, pit_index) ==
    LET sown == sow_from(h, board, pit_index)
        cap == IF pit_owner(board, sown.idx) = opponent(player)
               THEN real_capture_loop(sown.heap, board, sown.idx, 0, player)
               ELSE [captured |-> 0, heap |-> sown.heap]
    IN [ret |-> TRUE, heap |-> cap.heap]

\* a move whose captured stones are taken from the opponent's score too
apply_move_realFromOpponent(h, board, player, pit_index) ==
    LET sown == sow_from(h, board, pit_index)
        cap == IF pit_owner(board, sown.idx) = opponent(player)
               THEN real_capture_loop(sown.heap, board, sown.idx, 0, player)
               ELSE [captured |-> 0, heap |-> sown.heap]
    IN [ret |-> TRUE,
        heap |-> [cap.heap EXCEPT
                     !.list[board.scores][player] = @ + cap.captured,
                     !.list[board.scores][opponent(player)] =
                         IF @ >= cap.captured THEN @ - cap.captured ELSE 0]]

\* the part of apply_move after the checks: real sow, capture, score
apply_move_real(h, board, player, pit_index) ==
    LET sown == sow_from(h, board, pit_index)
        cap == IF pit_owner(board, sown.idx) = opponent(player)
               THEN real_capture_loop(sown.heap, board, sown.idx, 0, player)
               ELSE [captured |-> 0, heap |-> sown.heap]
    IN [ret |-> TRUE,
        heap |-> [cap.heap EXCEPT !.list[board.scores][player] =
                                      @ + cap.captured]]

\* apply_move returning for simulate_only ahead of the Grand Slam check
apply_moveSimFirst(h, board, player, pit_index, simulate_only) ==
    IF ~ValidPit(h, board, player, pit_index)
    THEN [ret |-> FALSE, heap |-> h]
    ELSE IF simulate_only
    THEN [ret |-> TRUE, heap |-> h]
    ELSE IF GrandSlamVeto(h, board, player, pit_index)
    THEN [ret |-> FALSE, heap |-> h]
    ELSE apply_move_real(h, board, player, pit_index)

apply_move(h, board, player, pit_index, simulate_only) ==
    IF ~ValidPit(h, board, player, pit_index)
    THEN [ret |-> FALSE, heap |-> h]
    ELSE IF GrandSlamVeto(h, board, player, pit_index)
    THEN [ret |-> FALSE, heap |-> h]
    ELSE IF simulate_only
    THEN [ret |-> TRUE, heap |-> h]
    ELSE apply_move_real(h, board, player, pit_index)

(* -------- game.py -------- *)

\* a sweep loop that leaves the stones in the pits
ZeroPitsKept(h, board, idxs) == h

\* board.pits[i].stones = 0 for every i of idxs
RECURSIVE ZeroPits(_, _, _)
ZeroPits(h, board, idxs) ==
    IF idxs = <<>> THEN h
    ELSE ZeroPits([h EXCEPT !.pit[board.pits[Head(idxs)]] = 0], board, Tail(idxs))

\* a sweep that credits the remaining stones to the other player
game_end_sweepWrongOwner(h, board, last_player) ==
    LET p0_total == SumAt(PlainPits(h, board), player_pit_indices(board, 0))
        p1_total == SumAt(PlainPits(h, board), player_pit_indices(board, 1))
    IN IF p0_total = 0 \/ p1_total = 0
       THEN LET h0 == IF p0_total > 0
                      THEN ZeroPits([h EXCEPT !.list[board.scores][1] = @ + p0_total],
                                    board, player_pit_indices(board, 0))
                      ELSE h
                h1 == IF p1_total > 0
                      THEN ZeroPits([h0 EXCEPT !.list[board.scores][0] = @ + p1_total],
                                    board, player_pit_indices(board, 1))
                      ELSE h0
            IN [ret |-> TRUE, heap |-> h1]
       ELSE [ret |-> FALSE, heap |-> h]

game_end_sweep(h, board, last_player) ==
    LET p0_total == SumAt(PlainPits(h, board), player_pit_indices(board, 0))
        p1_total == SumAt(PlainPits(h, board), player_pit_indices(board, 1))
    IN IF p0_total = 0 \/ p1_total = 0
       THEN LET h0 == IF p0_total > 0
                      THEN ZeroPits([h EXCEPT !.list[board.scores][0] = @ + p0_total],
                                    board, player_pit_indices(board, 0))
                      ELSE h
                h1 == IF p1_total > 0
                      THEN ZeroPits([h0 EXCEPT !.list[board.scores][1] = @ + p1_total],
                                    board, player_pit_indices(board, 1))
                      ELSE h0
            IN [ret |-> TRUE, heap |-> h1]
       ELSE [ret |-> FALSE, heap |-> h]

\* what is typed at simple_cli's prompt: q, something that is no number, or
\* a number
Quit == [kind |-> "q", value |-> 0]
NotANumber == [kind |-> "text", value |-> 0]
Number(n) == [kind |-> "int", value |-> n]

\* a turn that stays with the same player
alternateStay(player) == player

\* player = 1 - player
alternate(player) == 1 - player

\* one round of simple_cli's 'while True' loop with raw typed at the prompt
\* if the round gets there: the loop goes on (state "in progress") on
\* 'continue' and at the end of the body, and is left on 'break'; branch
\* names the way the round took
simple_cli(h, board, player, raw) ==
    LET swept == IF is_empty_side(h, board, 0) \/ is_empty_side(h, board, 1)
                 THEN game_end_sweep(h, board, player)
                 ELSE [ret |-> FALSE, heap |-> h]
        lm == legal_moves(swept.heap, board, player).ret
        round(branch, state, pl, hp) ==
            [branch |-> branch, state |-> state, player |-> pl, heap |-> hp]
    IN IF swept.ret THEN round("empty side", "ended", player, swept.heap)
       ELSE IF lm = <<>>
       THEN round("no legal moves", "ended", player,
                  game_end_sweep(swept.heap, board, player).heap)
       ELSE IF raw = Quit THEN round("quit", "quit", player, swept.heap)
       ELSE IF raw = NotANumber
       THEN round("no number", "in progress", player, swept.heap)
       ELSE IF raw.value \notin Range(lm)
       THEN round("illegal choice", "in progress", player, swept.heap)
       ELSE LET ok == apply_move(swept.heap, board, player, raw.value, FALSE)
            IN IF ~ok.ret
               THEN round("rejected", "in progress", player, ok.heap)
               ELSE round("applied", "in progress", alternate(player), ok.heap)

(* -------- cpu.py -------- *)

Difficulties == {"Easy", "Medium", "Hard"}

\* CPUPlayer.__init__
CPUPlayer(player_id, difficulty) ==
    [player_id |-> player_id,
     difficulty |-> difficulty,
     max_depth |-> IF difficulty = "Hard" THEN HardDepth ELSE OtherDepth]

\* objects allocated after the heap was keep are dropped when the last
\* reference to them (a local clone) goes away
Release(h, keep) ==
    [pit |-> [o \in DOMAIN keep.pit |-> h.pit[o]],
     list |-> [o \in DOMAIN keep.list |-> h.list[o]]]

\* a choice counted from the first legal pit, legal or not
ChoiceUnfiltered(legal, k) == Head(legal) + k - 1

\* random.choice(legal), k the outcome of the random source
Choice(legal, k) == legal[((k - 1) % Len(legal)) + 1]

Max2(x, y) == IF x >= y THEN x ELSE y
Min2(x, y) == IF x <= y THEN x ELSE y

RECURSIVE _get_smart_move_loop(_, _, _, _, _, _, _)
\* the 'for move in legal' loop of _get_smart_move from position k
_get_smart_move_loop(h, board, self, legal, k, best_move, max_score) ==
    IF k > Len(legal) THEN [ret |-> best_move, heap |-> h]
    ELSE LET move == legal[k]
             temp_board == clone(h, board)
             am == apply_move(temp_board.heap, temp_board.ret, self.player_id,
                              move, TRUE)
             score_gain == ScoresOf(am.heap, temp_board.ret)[self.player_id]
                             - ScoresOf(am.heap, board)[self.player_id]
             better == score_gain > max_score
         IN _get_smart_move_loop(Release(am.heap, h), board, self, legal, k + 1,
                                 IF better THEN move ELSE best_move,
                                 IF better THEN score_gain ELSE max_score)

_get_smart_move(h, board, self, legal) ==
    _get_smart_move_loop(h, board, self, legal, 1, legal[1], -1)

\* a child node made by applying the move to the board itself
ChildInPlace(h, board, current_player, move) ==
    [board |-> board,
     heap |-> apply_move(h, board, current_player, move, FALSE).heap]

\* sim_board = board.clone(); apply_move(sim_board, current_player, move)
Child(h, board, current_player, move) ==
    LET sim_board == clone(h, board)
    IN [board |-> sim_board.ret,
        heap |-> apply_move(sim_board.heap, sim_board.ret, current_player,
                            move, FALSE).heap]

\* a cut-off that stops every loop after its first child
CutOffAlways(alpha, beta) == TRUE

\* if beta <= alpha: break
CutOff(alpha, beta) == beta <= alpha

\* a win test that also takes a score of exactly WinScore
WonAtLeast(scores) == scores[0] >= WinScore \/ scores[1] >= WinScore

\* board.scores[0] > 24 or board.scores[1] > 24
Won(scores) == scores[0] > WinScore \/ scores[1] > WinScore

\* what a loop of _minimax has done before its first child: nothing expanded,
\* no recursive call made
NoChild(val, move, h) ==
    [val |-> val, move |-> move, heap |-> h, expanded |-> 0, width |-> 0,
     count |-> 0, calls |-> {}]

\* the result of a loop of _minimax with one more child r, called from the
\* node parent: one more expansion, the child's calls and the call of the
\* child itself
WithChild(loop, r, parent) ==
    [loop EXCEPT !.expanded = @ + 1,
                 !.width = Max2(@, r.width),
                 !.count = @ + r.count + 1,
                 !.calls = @ \cup r.calls
                             \cup {[parent |-> parent, child |-> r.node]}]

RECURSIVE _minimax(_, _, _, _, _, _, _)
RECURSIVE _minimax_max(_, _, _, _, _, _, _, _, _, _)
RECURSIVE _minimax_min(_, _, _, _, _, _, _, _, _, _)

\* the maximizing loop of _minimax from position k of legal
_minimax_max(h, board, self, depth, alpha, beta, legal, k, max_eval, best_move) ==
    IF k > Len(legal) THEN NoChild(max_eval, best_move, h)
    ELSE The({
        LET move == legal[k]
            h2 == Release(r.heap, h)
            eval_score == r.val
            better == eval_score > max_eval
            nmax == IF better THEN eval_score ELSE max_eval
            nbest == IF better THEN move ELSE best_move
            nalpha == Max2(alpha, eval_score)
            parent == [depth |-> depth, maximizing |-> TRUE]
        IN IF CutOff(nalpha, beta)
           THEN WithChild(NoChild(nmax, nbest, h2), r, parent)
           ELSE WithChild(_minimax_max(h2, board, self, depth, nalpha, beta,
                                       legal, k + 1, nmax, nbest), r, parent)
        : r \in {The({_minimax(ch.heap, ch.board, self, depth - 1, alpha, beta, FALSE)
                      : ch \in {Child(h, board, self.player_id, legal[k])}})}})

\* the minimizing loop of _minimax from position k of legal
_minimax_min(h, board, self, depth, alpha, beta, legal, k, min_eval, best_move) ==
    IF k > Len(legal) THEN NoChild(min_eval, best_move, h)
    ELSE The({
        LET move == legal[k]
            h2 == Release(r.heap, h)
            eval_score == r.val
            better == eval_score < min_eval
            nmin == IF better THEN eval_score ELSE min_eval
            nbest == IF better THEN move ELSE best_move
            nbeta == Min2(beta, eval_score)
            parent == [depth |-> depth, maximizing |-> FALSE]
        IN IF CutOff(alpha, nbeta)
           THEN WithChild(NoChild(nmin, nbest, h2), r, parent)
           ELSE WithChild(_minimax_min(h2, board, self, depth, alpha, nbeta,
                                       legal, k + 1, nmin, nbest), r, parent)
        : r \in {The({_minimax(ch.heap, ch.board, self, depth - 1, alpha, beta, TRUE)
                      : ch \in {Child(h, board, 1 - self.player_id, legal[k])}})}})

\* CPUPlayer._minimax.  Besides (value, move) and the heap the result tells
\* what the call did: node is the call itself, expanded the number of
\* children it made, width the largest number of children made by a call of
\* its tree, count the number of recursive calls made in its tree and calls
\* those calls, each with its depth and flag and those of its caller
_minimax(h, board, self, depth, alpha, beta, maximizing) ==
    The({
        LET legal == lm.ret
            scores == ScoresOf(lm.heap, board)
            node == [depth |-> depth, maximizing |-> maximizing]
            done(l) == [val |-> l.val, move |-> l.move, heap |-> l.heap,
                        expanded |-> l.expanded,
                        width |-> Max2(l.width, l.expanded),
                        count |-> l.count, calls |-> l.calls, node |-> node]
        IN IF depth = 0 \/ legal = <<>> \/ Won(scores)
           THEN done(NoChild(scores[self.player_id] - scores[1 - self.player_id],
                             None, lm.heap))
           ELSE IF maximizing
           THEN The({done(l) : l \in
                    {_minimax_max(lm.heap, board, self, depth, alpha, beta,
                                  legal, 1, -Infinity, None)}})
           ELSE The({done(l) : l \in
                    {_minimax_min(lm.heap, board, self, depth, alpha, beta,
                                  legal, 1, Infinity, None)}})
        : lm \in {legal_moves(h, board, IF maximizing THEN self.player_id
                                        ELSE 1 - self.player_id)}})

\* CPUPlayer.get_move; rnd.k is the outcome of random.choice, rnd.low says
\* whether random.random() < 0.3
get_move(h, board, self, rnd) ==
    LET lm == legal_moves(h, board, self.player_id)
        legal == lm.ret
    IN IF legal = <<>> THEN [ret |-> NoMove, heap |-> lm.heap]
       ELSE IF self.difficulty = "Easy"
       THEN [ret |-> Choice(legal, rnd.k), heap |-> lm.heap]
       ELSE IF self.difficulty = "Medium"
       THEN IF rnd.low
            THEN [ret |-> Choice(legal, rnd.k), heap |-> lm.heap]
            ELSE _get_smart_move(lm.heap, board, self, legal)
       ELSE IF self.difficulty = "Hard"
       THEN IF SumAt(PlainPits(lm.heap, board), [k \in 1..board.total_pits |-> k - 1])
                  = board.total_pits * OpeningStones
            THEN [ret |-> Choice(legal, rnd.k), heap |-> lm.heap]
            ELSE The({[ret |-> IF r.move # None THEN r.move
                               ELSE Choice(legal, rnd.k),
                       heap |-> r.heap]
                      : r \in {_minimax(lm.heap, board, self, self.max_depth,
                                        -Infinity, Infinity, TRUE)}})
       ELSE [ret |-> Choice(legal, rnd.k), heap |-> lm.heap]

(* -------- gui_core.py -------- *)

\* self.cpu_player = None
NoCpu == [none |-> TRUE]

\* SimpleOwareGUI._endgame_sweep: both side totals go to their owners' scores
\* and every pit is set to 0, whatever the position; the scores (final) are
\* recorded and shown, then the window goes back to the menu with a new
\* board (Board(), of the size explored), player 0 and no AI
_endgame_sweep(h, board, g) ==
    LET p0 == SumAt(PlainPits(h, board), player_pit_indices(board, 0))
        p1 == SumAt(PlainPits(h, board), player_pit_indices(board, 1))
        h0 == [h EXCEPT !.list[board.scores][0] = @ + p0]
        h1 == [h0 EXCEPT !.list[board.scores][1] = @ + p1]
        h2 == ZeroPits(h1, board, [k \in 1..board.total_pits |-> k - 1])
        fresh == Board(h2, board.pits_per_side, board.initial_stones)
    IN [heap |-> fresh.heap,
        board |-> fresh.ret,
        final |-> [pits |-> PlainPits(h2, board), scores |-> ScoresOf(h2, board)],
        gui |-> [g EXCEPT !.player = 0,
                          !.animating = FALSE,
                          !.vs_ai = FALSE,
                          !.cpu_player = NoCpu,
                          !.started = FALSE]]

\* start_game(vs_ai) with difficulty chosen in the menu
start_game(g, vs_ai, difficulty) ==
    [g EXCEPT !.vs_ai = vs_ai,
              !.cpu_player = IF vs_ai THEN CPUPlayer(1, difficulty) ELSE @,
              !.history_stack = <<>>,
              !.redo_stack = <<>>,
              !.started = TRUE]

\* save_state: a clone of the board, the player and a copy of the scores
\* list are pushed on history_stack, redo_stack is cleared
save_state(h, board, g) ==
    LET cl == clone(h, board)
        l == NewList(cl.heap, ScoresOf(cl.heap, board))
        state == [board |-> cl.ret, player |-> g.player, scores |-> l.ref]
    IN [heap |-> l.heap,
        gui |-> [g EXCEPT !.history_stack = Append(@, state),
                          !.redo_stack = <<>>]]

\* {'board': self.board.clone(), 'player': self.player,
\*  'scores': list(self.board.scores)}
current_state(h, board, g) ==
    LET cl == clone(h, board)
        l == NewList(cl.heap, ScoresOf(cl.heap, board))
    IN [heap |-> l.heap,
        state |-> [board |-> cl.ret, player |-> g.player, scores |-> l.ref]]

\* a restore that leaves the acting player as it is
restoreBoardOnly(g, state) ==
    [board |-> [state.board EXCEPT !.scores = state.scores], gui |-> g]

\* self.board = state['board']; self.player = state['player'];
\* self.board.scores = state['scores']
restore(g, state) ==
    [board |-> [state.board EXCEPT !.scores = state.scores],
     gui |-> [g EXCEPT !.player = state.player]]

\* the number of states perform_undo means to step back
undo_steps(g) ==
    IF g.vs_ai /\ g.player = 1 THEN 1
    ELSE IF g.vs_ai /\ g.player = 0 /\ Len(g.history_stack) >= 2 THEN 2
    ELSE 1

RECURSIVE perform_undo_loop(_, _, _, _)
\* the 'for _ in range(steps)' loop of perform_undo
perform_undo_loop(h, board, g, steps) ==
    IF steps = 0 \/ g.history_stack = <<>>
    THEN [heap |-> h, board |-> board, gui |-> g]
    ELSE The({
        The({perform_undo_loop(current.heap, r.board, r.gui, steps - 1)
             : r \in {LET pushed == [g EXCEPT
                                        !.redo_stack = Append(@, current.state)]
                          prev == pushed.history_stack[Len(pushed.history_stack)]
                          popped == [pushed EXCEPT
                                        !.history_stack = SubSeq(@, 1, Len(@) - 1)]
                      IN restore(popped, prev)}})
        : current \in {current_state(h, board, g)}})

\* perform_undo
perform_undo(h, board, g) ==
    IF g.history_stack = <<>> \/ g.animating
    THEN [branch |-> "ignored", heap |-> h, board |-> board, gui |-> g]
    ELSE The({[branch |-> "undone", heap |-> r.heap, board |-> r.board,
               gui |-> r.gui]
              : r \in {perform_undo_loop(h, board, g, undo_steps(g))}})

\* perform_redo
perform_redo(h, board, g) ==
    IF g.redo_stack = <<>> \/ g.animating
    THEN [branch |-> "ignored", heap |-> h, board |-> board, gui |-> g]
    ELSE The({
        LET pushed == [g EXCEPT !.history_stack = Append(@, current.state)]
            next_state == pushed.redo_stack[Len(pushed.redo_stack)]
            popped == [pushed EXCEPT !.redo_stack = SubSeq(@, 1, Len(@) - 1)]
            r == restore(popped, next_state)
        IN [branch |-> "redone", heap |-> current.heap, board |-> r.board,
            gui |-> r.gui]
        : current \in {current_state(h, board, g)}})

\* _animate_and_apply: the flashes of the sown pits are started; the move is
\* applied by the _flash_sequence call that comes after the last flash
_animate_and_apply(g, pit_index) ==
    [g EXCEPT !.animating = TRUE, !.flashing = Append(@, pit_index)]

\* _on_pit_click on the canvas item of pit pit_idx
_on_pit_click(h, board, g, pit_idx) ==
    IF g.animating THEN [branch |-> "animating", heap |-> h, gui |-> g]
    ELSE IF g.vs_ai /\ g.player = 1
    THEN [branch |-> "cpu to move", heap |-> h, gui |-> g]
    ELSE LET legal == legal_moves(h, board, g.player)
         IN IF pit_idx \notin Range(legal.ret)
            THEN [branch |-> "illegal", heap |-> legal.heap, gui |-> g]
            ELSE LET saved == save_state(legal.heap, board, g)
                 IN [branch |-> "started", heap |-> saved.heap,
                     gui |-> _animate_and_apply(saved.gui, pit_idx)]

\* no board has been swept
NoFinal == [none |-> TRUE]

\* _flash_sequence(seq, pos, source_pit) with pos >= len(seq)
_flash_sequence(h, board, g, source_pit) ==
    LET ok == apply_move(h, board, g.player, source_pit, FALSE)
    IN IF ~ok.ret
       THEN [branch |-> "rejected", heap |-> ok.heap, board |-> board,
             final |-> NoFinal, gui |-> [g EXCEPT !.animating = FALSE]]
       ELSE IF is_empty_side(ok.heap, board, 0) \/ is_empty_side(ok.heap, board, 1)
       THEN LET r == _endgame_sweep(ok.heap, board, [g EXCEPT !.animating = FALSE])
            IN [branch |-> "endgame", heap |-> r.heap, board |-> r.board,
                final |-> r.final, gui |-> r.gui]
       ELSE LET player == 1 - g.player
            IN [branch |-> "applied", heap |-> ok.heap, board |-> board,
                final |-> NoFinal,
                gui |-> [g EXCEPT !.player = player,
                                  !.animating = FALSE,
                                  !.timers = IF g.vs_ai
                                                /\ player = g.cpu_player.player_id
                                             THEN @ + 1 ELSE @]]

\* _execute_cpu_turn, called by the timer set in _flash_sequence
_execute_cpu_turn(h, board, g, rnd) ==
    IF ~g.vs_ai \/ g.player # g.cpu_player.player_id
    THEN [branch |-> "not the cpu's turn", heap |-> h, gui |-> g]
    ELSE The({
        The({
            LET kept == Release(move.heap, saved.heap)
            IN IF move.ret = NoMove
               THEN [branch |-> "passed", heap |-> kept,
                     gui |-> [saved.gui EXCEPT !.player = 1 - @]]
               ELSE [branch |-> "started", heap |-> kept,
                     gui |-> _animate_and_apply(saved.gui, move.ret)]
            : move \in {get_move(saved.heap, board, saved.gui.cpu_player, rnd)}})
        : saved \in {save_state(h, board, g)}})

\* _trigger_endgame
_trigger_endgame(h, board, g) ==
    IF g.animating
    THEN [branch |-> "animating", heap |-> h, board |-> board, final |-> NoFinal,
          gui |-> g]
    ELSE LET r == _endgame_sweep(h, board, g)
         IN [branch |-> "swept", heap |-> r.heap, board |-> r.board,
             final |-> r.final, gui |-> r.gui]

(* -------- the calls made on the boards -------- *)

BoardOf(t) == IF t = "b" THEN b ELSE c

\* pit counts and scores of a board, as values
View(h, board) ==
    IF board = NoBoard THEN NoBoard
    ELSE [pits |-> PlainPits(h, board), scores |-> ScoresOf(h, board)]

Call(op, t, player, pit, sim, ret, moves) ==
    [op |-> op, target |-> t, player |-> player, pit |-> pit, sim |-> sim,
     ret |-> ret, moves |-> moves,
     before_b |-> View(heap, b), before_c |-> View(heap, c)]

\* pit indices tried by callers: every index and one out of range each side
PitInputs(board) == (-1)..board.total_pits

EmptyHeap == [pit |-> <<>>, list |-> <<>>]

\* simple_cli has not been called
NewCli == [player |-> 0, state |-> "not run"]

\* SimpleOwareGUI.__init__: player 0, no AI, the menu is shown
NewGui ==
    [player |-> 0, vs_ai |-> FALSE, started |-> FALSE, animating |-> FALSE,
     flashing |-> <<>>, timers |-> 0, cpu_player |-> NoCpu,
     history_stack |-> <<>>, redo_stack |-> <<>>]

InitBoardOn(h, board, calls) ==
    /\ heap = h
    /\ b = board
    /\ c = NoBoard
    /\ budget = calls
    /\ gui = NewGui
    /\ cli = NewCli
    /\ last = [op |-> "init", target |-> "b", player |-> 0, pit |-> 0,
               sim |-> FALSE, ret |-> FALSE, moves |-> <<>>,
               before_b |-> View(h, board), before_c |-> NoBoard]

\* Board(pits_per_side, initial_stones) on an empty heap
InitWith(calls) ==
    \E pits_per_side \in 1..MaxPitsPerSide, initial_stones \in 1..MaxInitialStones :
        /\ 2 * pits_per_side * initial_stones <= MaxStones
        /\ LET r == Board(EmptyHeap, pits_per_side, initial_stones)
           IN InitBoardOn(r.heap, r.ret, calls)

Init == InitWith(-1)

\* exploration bound, not program code: every call uses up one unit of a
\* limited budget (MaxCloneCalls, MaxExampleCalls); -1 is no limit
Spend ==
    /\ budget # 0
    /\ budget' = IF budget < 0 THEN budget ELSE budget - 1

ApplyMove(t, player, pit_index, simulate_only) ==
    /\ BoardOf(t) # NoBoard
    /\ LET r == apply_move(heap, BoardOf(t), player, pit_index, simulate_only)
       IN /\ heap' = r.heap
          /\ last' = Call("apply_move", t, player, pit_index, simulate_only,
                          r.ret, <<>>)
    /\ Spend
    /\ UNCHANGED <<b, c, gui, cli>>

LegalMoves(t, player) ==
    /\ BoardOf(t) # NoBoard
    /\ LET r == legal_moves(heap, BoardOf(t), player)
       IN /\ heap' = r.heap
          /\ last' = Call("legal_moves", t, player, 0, FALSE, FALSE, r.ret)
    /\ Spend
    /\ UNCHANGED <<b, c, gui, cli>>

GameEndSweep(t, last_player) ==
    /\ BoardOf(t) # NoBoard
    /\ LET r == game_end_sweep(heap, BoardOf(t), last_player)
       IN /\ heap' = r.heap
          /\ last' = Call("game_end_sweep", t, last_player, 0, FALSE, r.ret, <<>>)
    /\ Spend
    /\ UNCHANGED <<b, c, gui, cli>>

Next ==
    \/ \E player \in Players, pit_index \in PitInputs(b), simulate_only \in BOOLEAN :
           ApplyMove("b", player, pit_index, simulate_only)
    \/ \E player \in Players : LegalMoves("b", player)
    \/ \E last_player \in Players : GameEndSweep("b", last_player)

Spec == Init /\ [][Next]_vars

(* -------- a position loaded into a default board -------- *)

\* session_ui.load_from_path: gui.board.pits[i].stones = int(v) for each
\* value of the saved list, then gui.board.scores = [s0, s1] (a new list)
RECURSIVE SetPits(_, _, _, _)
SetPits(h, board, vals, i) ==
    IF i >= ListLen(vals) THEN h
    ELSE SetPits([h EXCEPT !.pit[board.pits[i]] = vals[i]], board, vals, i + 1)

LoadPosition(h, board, pits, scores) ==
    LET h1 == IF ListLen(pits) > 0 /\ ListLen(pits) = board.total_pits
              THEN SetPits(h, board, pits, 0) ELSE h
    IN IF ListLen(scores) = 2
       THEN LET l == NewList(h1, scores)
                live == {l.ref}
            IN [ret |-> [board EXCEPT !.scores = l.ref],
                heap |-> [h1 EXCEPT !.list = [o \in live |-> l.heap.list[o]]]]
       ELSE [ret |-> board, heap |-> h1]

\* a Python list literal of values, 0-based
ListOf(seq) == [i \in 0..(Len(seq) - 1) |-> seq[i + 1]]

\* the position of the capture-chain example: player 0 side then player 1 side
ExamplePits == ListOf(<<0, 0, 0, 1, 0, 3, 0, 0, 2, 0, 0, 0>>)
ExampleScores == ListOf(<<0, 0>>)

InitExample ==
    LET r == Board(EmptyHeap, DefaultPitsPerSide, DefaultInitialStones)
        l == LoadPosition(r.heap, r.ret, ExamplePits, ExampleScores)
    IN InitBoardOn(l.heap, l.ret, MaxExampleCalls)

SpecExample == InitExample /\ [][Next]_vars

(* -------- a clone next to the live board -------- *)

CloneBoard ==
    /\ c = NoBoard
    /\ LET r == clone(heap, b)
       IN /\ heap' = r.heap
          /\ c' = r.ret
          /\ last' = Call("clone", "b", 0, 0, FALSE, FALSE, <<>>)
    /\ Spend
    /\ UNCHANGED <<b, gui, cli>>

\* Board.sow_from called directly
SowFrom(t, pit_index) ==
    /\ BoardOf(t) # NoBoard
    /\ LET r == sow_from(heap, BoardOf(t), pit_index)
       IN /\ heap' = r.heap
          /\ last' = Call("sow_from", t, 0, pit_index, FALSE, FALSE,
                          <<r.idx, r.count>>)
    /\ Spend
    /\ UNCHANGED <<b, c, gui, cli>>

Boards == {"b", "c"}

NextClone ==
    \/ CloneBoard
    \/ \E t \in Boards, pit_index \in 0..(b.total_pits - 1) : SowFrom(t, pit_index)
    \/ \E t \in Boards, player \in Players, pit_index \in 0..(b.total_pits - 1) :
           ApplyMove(t, player, pit_index, FALSE)
    \/ \E t \in Boards, last_player \in Players : GameEndSweep(t, last_player)

InitClone == InitWith(MaxCloneCalls)

SpecClone == InitClone /\ [][NextClone]_vars

(* ======================= properties ======================= *)

\* every pit index of a board, in order
AllPits(board) == [k \in 1..board.total_pits |-> k - 1]

Live == View(heap, b)

\* the pits of player that hold stones in the plain list pits
NonEmptyPits(board, pits, player) ==
    {i \in Range(player_pit_indices(board, player)) : pits[i] > 0}

\* the non-empty pits of player whose simulated move leaves the opponent stones
FeedingPits(board, pits, player) ==
    {i \in NonEmptyPits(board, pits, player) :
        SimOppTotal(pits, board, player, i) > 0}

Accepted == last.op = "apply_move" /\ last.ret /\ ~last.sim

\* C1: stone conservation: on every board reached from Board(pits_per_side,
\* initial_stones) by apply_move and game_end_sweep calls, the pit counts
\* plus both scores add up to total_pits * initial_stones.
C1_Conservation ==
    SumAt(Live.pits, AllPits(b)) + Live.scores[0] + Live.scores[1]
        = b.total_pits * b.initial_stones

\* a move that captured has been applied and credited
C1_Witness ==
    /\ Accepted
    /\ Live.scores[last.player] > last.before_b.scores[last.player]

InvalidPit(board, pits, player, pit_index) ==
    \/ pit_index < 0
    \/ pit_index >= board.total_pits
    \/ pit_owner(board, pit_index) # player
    \/ pits[pit_index] = 0

\* C2: InvalidPit fails closed: apply_move returns False and leaves all pit
\* counts and both scores unchanged when the pit index is out of range, the
\* pit is not the player's, or the pit is empty (with either simulate_only).
C2_InvalidPitFailsClosed ==
    (/\ last.op = "apply_move"
     /\ InvalidPit(b, last.before_b.pits, last.player, last.pit))
        => (last.ret = FALSE /\ Live = last.before_b)

\* apply_move was called on an empty pit of the player's own
C2_Witness ==
    /\ last.op = "apply_move"
    /\ last.pit >= 0 /\ last.pit < b.total_pits
    /\ pit_owner(b, last.pit) = last.player
    /\ last.before_b.pits[last.pit] = 0
    /\ ~last.sim
    /\ last.ret = FALSE

\* the move starves the opponent although another pit of the player would not
Vetoed(board, pits, player, pit_index) ==
    /\ SimOppTotal(pits, board, player, pit_index) = 0
    /\ \E alt \in NonEmptyPits(board, pits, player) :
           alt # pit_index /\ SimOppTotal(pits, board, player, alt) > 0

\* C3: Grand Slam veto: for a valid pit apply_move returns False exactly when
\* the move would leave the opponent no stones and another non-empty pit of
\* the player would leave the opponent some; a rejected call changes nothing;
\* every other valid call returns True.
C3_GrandSlamVeto ==
    (/\ last.op = "apply_move"
     /\ ~InvalidPit(b, last.before_b.pits, last.player, last.pit))
        => /\ last.ret = FALSE
                <=> Vetoed(b, last.before_b.pits, last.player, last.pit)
           /\ last.ret = FALSE => Live = last.before_b

\* a move was vetoed
C3_Witness ==
    /\ last.op = "apply_move"
    /\ ~InvalidPit(b, last.before_b.pits, last.player, last.pit)
    /\ ~last.sim
    /\ last.ret = FALSE

\* a starving move was accepted because the player had no feeding move
C3_WitnessUnavoidable ==
    /\ Accepted
    /\ SimOppTotal(last.before_b.pits, b, last.player, last.pit) = 0

\* C4: legal_moves(board, P) is non-empty iff P owns a pit holding stones;
\* when every non-empty pit of P starves the opponent, all of them are
\* returned.
C4_LegalityNonEmptiness ==
    last.op = "legal_moves"
        => /\ last.moves # <<>>
                <=> NonEmptyPits(b, last.before_b.pits, last.player) # {}
           /\ FeedingPits(b, last.before_b.pits, last.player) = {}
                => Range(last.moves)
                       = NonEmptyPits(b, last.before_b.pits, last.player)

\* legal_moves was called where every move starves: the exception applied
C4_Witness ==
    /\ last.op = "legal_moves"
    /\ FeedingPits(b, last.before_b.pits, last.player) = {}
    /\ last.moves # <<>>

StrictlyIncreasing(seq) ==
    \A j, k \in DOMAIN seq : j < k => seq[j] < seq[k]

\* C5: legal_moves(board, P) returns, in strictly increasing order, exactly
\* the non-empty pits of P whose simulated sow and capture leaves the
\* opponent a pit total > 0, or, when there is none, all non-empty pits of
\* P; never an empty pit, never a pit of the opponent.
C5_LegalMovesExact ==
    last.op = "legal_moves"
        => LET pits == last.before_b.pits
               feeding == FeedingPits(b, pits, last.player)
           IN /\ StrictlyIncreasing(last.moves)
              /\ Range(last.moves) =
                     IF feeding # {} THEN feeding
                     ELSE NonEmptyPits(b, pits, last.player)
              /\ \A k \in DOMAIN last.moves :
                     /\ pits[last.moves[k]] > 0
                     /\ pit_owner(b, last.moves[k]) = last.player

\* legal_moves left out a non-empty pit of the player: a starving move
C5_Witness ==
    /\ last.op = "legal_moves"
    /\ last.moves # <<>>
    /\ Range(last.moves) # NonEmptyPits(b, last.before_b.pits, last.player)

\* C6: simulate_only purity: apply_move(..., simulate_only=True) returns the
\* flag the call with simulate_only=False returns on the same board, and
\* leaves the pit counts and both scores unchanged whatever it returns.
C6_SimulateOnlyPurity ==
    (last.op = "apply_move" /\ last.sim)
        => /\ Live = last.before_b
           /\ last.ret = apply_move(heap, b, last.player, last.pit, FALSE).ret

\* a simulated call accepted a move that the real call would capture with
C6_Witness ==
    /\ last.op = "apply_move" /\ last.sim /\ last.ret
    /\ LET r == apply_move(heap, b, last.player, last.pit, FALSE)
       IN View(r.heap, b).scores # Live.scores

\* a simulated call rejected a move under the Grand Slam veto
C6_WitnessVeto ==
    /\ last.op = "apply_move" /\ last.sim /\ ~last.ret
    /\ ~InvalidPit(b, last.before_b.pits, last.player, last.pit)

\* C7: legal_moves is read-only: a call for either player leaves every pit
\* count and both scores of the board unchanged.
C7_LegalMovesReadOnly ==
    last.op = "legal_moves" => Live = last.before_b

\* legal_moves ran its lookahead on at least two candidate pits
C7_Witness ==
    /\ last.op = "legal_moves"
    /\ Cardinality(NonEmptyPits(b, last.before_b.pits, last.player)) >= 2
    /\ Live = last.before_b

CloneView == View(heap, c)

Mutators == {"sow_from", "apply_move", "game_end_sweep"}

\* C8: clone independence: b.clone() has the pits_per_side, pit counts and
\* scores of b; a later sow_from, apply_move or game_end_sweep on the clone
\* leaves the pit counts and scores of b unchanged, and one on b leaves the
\* clone unchanged.
C8_CloneIndependence ==
    /\ last.op = "clone"
         => /\ c.pits_per_side = b.pits_per_side
            /\ CloneView = Live
            /\ Live = last.before_b
    /\ (last.op \in Mutators /\ last.target = "c") => Live = last.before_b
    /\ (last.op \in Mutators /\ last.target = "b" /\ c # NoBoard)
         => CloneView = last.before_c

\* a capturing move was applied to the clone: its pits and scores changed
C8_Witness ==
    /\ Accepted
    /\ last.target = "c"
    /\ CloneView.pits # last.before_c.pits
    /\ CloneView.scores # last.before_c.scores
    /\ Live = last.before_b

\* the live board was changed after the clone was taken
C8_WitnessLive ==
    /\ last.op = "sow_from"
    /\ last.target = "b"
    /\ c # NoBoard
    /\ Live # last.before_b

ExampleView == [pits |-> ExamplePits, scores |-> ExampleScores]

\* apply_move(board, player, pit_index) was called on the example position
OnExample(player, pit_index) ==
    /\ last.op = "apply_move"
    /\ ~last.sim
    /\ last.before_b = ExampleView
    /\ last.player = player
    /\ last.pit = pit_index

\* C9 as stated: on the example position apply_move(board, 0, 5) returns
\* failure (Grand Slam veto) and leaves the board unchanged.
C9_VetoedExample ==
    OnExample(0, 5) => (last.ret = FALSE /\ Live = last.before_b)

\* C9 amended: on the example position apply_move(board, 0, 5) returns
\* success: the sow leaves one stone in each of indices 6 and 7 and raises
\* index 8 to 3, only index 8 is captured, the opponent keeps 2 stones, so
\* no veto applies; player 0 scores 3.
C9_ExampleAccepted ==
    OnExample(0, 5)
        => /\ last.ret = TRUE
           /\ Live.pits = ListOf(<<0, 0, 0, 1, 0, 0, 1, 1, 0, 0, 0, 0>>)
           /\ Live.scores = ListOf(<<3, 0>>)

\* pit 5 has been played on the example position
C9_Witness == OnExample(0, 5) /\ last.ret

\* C10: on the example position apply_move(board, 0, 3) returns success,
\* captures nothing (scores stay [0, 0]) and changes only index 3 (1 to 0)
\* and index 4 (0 to 1).
C10_AlternativeExample ==
    OnExample(0, 3)
        => /\ last.ret = TRUE
           /\ Live.scores = ListOf(<<0, 0>>)
           /\ Live.pits = [ExamplePits EXCEPT ![3] = 0, ![4] = 1]

\* pit 3 has been played on the example position
C10_Witness == OnExample(0, 3) /\ last.ret /\ Live.pits[4] = 1

(* -------- the simple-capture position -------- *)

SimpleCapturePits == ListOf(<<0, 0, 0, 0, 0, 1, 1, 2, 0, 0, 0, 0>>)

InitCapture ==
    LET r == Board(EmptyHeap, DefaultPitsPerSide, DefaultInitialStones)
        l == LoadPosition(r.heap, r.ret, SimpleCapturePits, ExampleScores)
    IN InitBoardOn(l.heap, l.ret, MaxExampleCalls)

SpecCapture == InitCapture /\ [][Next]_vars

SimpleCaptureView == [pits |-> SimpleCapturePits, scores |-> ExampleScores]

\* apply_move(board, 0, 5) was called on the simple-capture position
OnSimpleCapture ==
    /\ last.op = "apply_move"
    /\ ~last.sim
    /\ last.before_b = SimpleCaptureView
    /\ last.player = 0
    /\ last.pit = 5

\* C11: simple capture: on player 0 side [0,0,0,0,0,1], player 1 side
\* [1,2,0,0,0,0], apply_move(board, 0, 5) returns success; afterwards index
\* 5 and index 6 are 0, index 7 is still 2 (the chain stopped at index 5),
\* player 0's score has grown by exactly 2, player 1's is unchanged.
C11_SimpleCapture ==
    OnSimpleCapture
        => /\ last.ret = TRUE
           /\ Live.pits = [SimpleCapturePits EXCEPT ![5] = 0, ![6] = 0]
           /\ Live.pits[7] = 2
           /\ Live.scores[0] = last.before_b.scores[0] + 2
           /\ Live.scores[1] = last.before_b.scores[1]

\* pit 5 has been played on the simple-capture position
C11_Witness == OnSimpleCapture /\ last.ret /\ Live.scores[0] = 2

\* the board after a sweep of the position before: each side's pit total
\* added to its owner's score, every pit 0
Swept(board, before) ==
    [pits |-> [i \in DOMAIN before.pits |-> 0],
     scores |-> [p \in 0..1 |->
                   before.scores[p]
                     + SumAt(before.pits, player_pit_indices(board, p))]]

SideEmpty(board, pits, player) ==
    SumAt(pits, player_pit_indices(board, player)) = 0

\* C17: sweep correctness: game_end_sweep on a board with an empty side adds
\* the other side's pit total to its owner's score, leaves the other score,
\* zeroes every pit, leaves scores[0] + scores[1] = total_pits *
\* initial_stones and returns True; the GUI's _endgame_sweep gives the same
\* board on such a position.
C17_SweepCorrectness ==
    /\ (/\ last.op = "game_end_sweep"
        /\ \E p \in Players : SideEmpty(b, last.before_b.pits, p))
         => /\ last.ret = TRUE
            /\ Live = Swept(b, last.before_b)
            /\ \A p \in Players :
                   SideEmpty(b, last.before_b.pits, p)
                       => Live.scores[p] = last.before_b.scores[p]
            /\ Live.scores[0] + Live.scores[1] = b.total_pits * b.initial_stones
    /\ (\E p \in Players : SideEmpty(b, Live.pits, p))
         => _endgame_sweep(heap, b, gui).final = Swept(b, Live)

\* a sweep moved the stones left on one side into its owner's score
C17_Witness ==
    /\ last.op = "game_end_sweep"
    /\ last.ret
    /\ Live.scores # last.before_b.scores
    /\ SumAt(last.before_b.pits, AllPits(b)) > 0

(* -------- Board.sow_from called on its own -------- *)

NextSow == \E pit_index \in 0..(b.total_pits - 1) : SowFrom("b", pit_index)

SpecSow == Init /\ [][NextSow]_vars

\* the number of k in 1..s with (i + k) mod n = j: the stones pit j receives
\* from a sow of s stones out of pit i
Received(i, s, n, j) == Cardinality({k \in 1..s : (i + k) % n = j})

\* C19: sow_from(i) on a pit holding s > 0 empties pit i, then adds one stone
\* to each of (i+1) mod total_pits, ..., (i+s) mod total_pits, the source
\* pit included (it receives floor(s / total_pits)); the pit total is
\* unchanged and the call returns ((i+s) mod total_pits, that pit's count).
\* With s = 0 nothing changes and it returns (i, 0).
C19_Sowing ==
    last.op = "sow_from"
        => LET i == last.pit
               s == last.before_b.pits[i]
               n == b.total_pits
           IN /\ Live.scores = last.before_b.scores
              /\ s = 0 => (Live = last.before_b /\ last.moves = <<i, 0>>)
              /\ s > 0 =>
                   /\ \A j \in 0..(n - 1) :
                          Live.pits[j] = (IF j = i THEN 0 ELSE last.before_b.pits[j])
                                           + Received(i, s, n, j)
                   /\ Live.pits[i] = s \div n
                   /\ SumAt(Live.pits, AllPits(b))
                          = SumAt(last.before_b.pits, AllPits(b))
                   /\ last.moves = <<(i + s) % n, Live.pits[(i + s) % n]>>

\* a sow of at least total_pits stones put a stone back into its source pit
C19_Witness ==
    /\ last.op = "sow_from"
    /\ last.before_b.pits[last.pit] >= b.total_pits
    /\ Live.pits[last.pit] >= 1

\* sow_from was called on an empty pit
C19_WitnessEmpty ==
    /\ last.op = "sow_from"
    /\ last.before_b.pits[last.pit] = 0

(* -------- play: accepted moves only, on boards of up to 3 pits a side -------- *)

InitPlay ==
    \E pits_per_side \in 1..MaxPlayPitsPerSide, initial_stones \in 1..MaxInitialStones :
        /\ 2 * pits_per_side * initial_stones <= MaxStones
        /\ LET r == Board(EmptyHeap, pits_per_side, initial_stones)
           IN InitBoardOn(r.heap, r.ret, -1)

\* apply_move(board, player, pit_index) returning True
Move(player, pit_index) ==
    /\ ApplyMove("b", player, pit_index, FALSE)
    /\ last'.ret

NextPlay ==
    \E player \in Players, pit_index \in 0..(b.total_pits - 1) :
        Move(player, pit_index)

SpecPlay == InitPlay /\ [][NextPlay]_vars

\* the pits after the sow of the last move, and where it landed
Sown == _sow_list(last.before_b.pits, last.pit)

\* pit (L - k) mod total_pits and all pits between it and L are the
\* opponent's and hold 2 or 3 in the list pits
InRun(board, pits, L, opp, k) ==
    \A m \in 0..k :
        LET j == (L - m) % board.total_pits
        IN pit_owner(board, j) = opp /\ pits[j] \in {2, 3}

\* the maximal run L, L-1, ... of opponent pits holding 2 or 3
CaptureRun(board, pits, L, opp) ==
    {(L - k) % board.total_pits :
        k \in {k \in 0..(board.total_pits - 1) : InRun(board, pits, L, opp, k)}}

\* C20: capture chain: after a sow landing at L the pits captured are exactly
\* the maximal run L, L-1, ... (mod total_pits) of pits owned by the mover's
\* opponent that all hold 2 or 3; none if L is the mover's or pit L does not
\* hold 2 or 3; a pit holding 2 or 3 behind a gap is not captured.  The same
\* holds of apply_move's in-place loop and of _capture_on_list.
C20_CaptureChain ==
    Accepted
        => LET P == Sown.pits
               L == Sown.idx
               run == CaptureRun(b, P, L, opponent(last.player))
               after == [j \in DOMAIN P |-> IF j \in run THEN 0 ELSE P[j]]
           IN /\ Live.pits = after
              /\ {j \in DOMAIN P : Live.pits[j] # P[j]} = run
              /\ Live.scores[last.player]
                     = last.before_b.scores[last.player]
                         + SumAt(P, AllPits(b)) - SumAt(after, AllPits(b))
              /\ _capture_on_list(P, L, last.player, b.pits_per_side).pits = after
              /\ (pit_owner(b, L) = last.player \/ P[L] \notin {2, 3})
                     => run = {}

\* a move captured a run and left alone an opponent pit holding 2 or 3
\* beyond a gap
C20_Witness ==
    /\ Accepted
    /\ LET P == Sown.pits
           L == Sown.idx
           opp == opponent(last.player)
           run == CaptureRun(b, P, L, opp)
       IN /\ run # {}
          /\ \E j \in 0..(b.total_pits - 1) :
                 /\ j < L /\ j \notin run
                 /\ pit_owner(b, j) = opp
                 /\ P[j] \in {2, 3}
                 /\ Live.pits[j] = P[j]

\* a move captured a chain of two or more pits
C20_WitnessChain ==
    /\ Accepted
    /\ Cardinality(CaptureRun(b, Sown.pits, Sown.idx, opponent(last.player))) >= 2

(* -------- session_ui.py: importing a saved state -------- *)

\* the 'if current:' branch of load_from_path: pits are stored when their
\* number fits, scores when there are two, then player and vs_ai are taken
\* and the game screen is set up
load_from_path(h, board, g, current) ==
    LET l == LoadPosition(h, board, current.board_pits, current.scores)
    IN [heap |-> l.heap,
        board |-> l.ret,
        gui |-> [g EXCEPT !.player = current.player,
                          !.vs_ai = current.vs_ai,
                          !.cpu_player = IF current.vs_ai
                                         THEN CPUPlayer(1, "Medium")
                                         ELSE NoCpu,
                          !.started = TRUE]]

LoadFromPath(current) ==
    /\ LET r == load_from_path(heap, b, gui, current)
           call == Call("load_from_path", "b", current.player, 0, FALSE, FALSE, <<>>)
       IN /\ heap' = r.heap
          /\ b' = r.board
          /\ gui' = r.gui
          /\ last' = [f \in (DOMAIN call) \cup {"current", "before_gui"} |->
                        IF f = "current" THEN current
                        ELSE IF f = "before_gui" THEN gui
                        ELSE call[f]]
    /\ Spend
    /\ UNCHANGED <<c, cli>>

\* saved pit lists: absent (empty), or of a length one less than, equal to or
\* one more than total_pits, with counts within 0..MaxLoadedStones
SavedPits(board) ==
    {ListOf(<<>>)} \cup
    {[i \in 0..(n - 1) |-> (seed + i) % (MaxLoadedStones + 1)] :
        n \in (board.total_pits - 1)..(board.total_pits + 1),
        seed \in 0..MaxLoadedStones}

SavedStates(board) ==
    [board_pits : SavedPits(board),
     scores : {ListOf(<<>>), ListOf(<<1, 2>>)},
     player : Players,
     vs_ai : BOOLEAN]

NextImport ==
    \/ \E current \in SavedStates(b) : LoadFromPath(current)
    \/ \E player \in Players, pit_index \in 0..(b.total_pits - 1) :
           Move(player, pit_index)

InitImport == InitWith(MaxImportCalls)

SpecImport == InitImport /\ [][NextImport]_vars

\* C18: import length check: importing a saved state whose pit-count list
\* has a length other than total_pits is rejected as a whole: pit counts,
\* both scores and the current player keep their values and no game is
\* started from the imported data.
C18_ImportLengthCheck ==
    (/\ last.op = "load_from_path"
     /\ ListLen(last.current.board_pits) > 0
     /\ ListLen(last.current.board_pits) # b.total_pits)
        => /\ Live = last.before_b
           /\ gui.player = last.before_gui.player
           /\ gui.started = last.before_gui.started

(* -------- the computer player asked for a move -------- *)

\* a call record with further fields
CallWith(call, extra) ==
    [f \in (DOMAIN call) \cup (DOMAIN extra) |->
        IF f \in DOMAIN extra THEN extra[f] ELSE call[f]]

\* cpu_player.get_move(board); the GUI's computer player is player 1
GetMove(self, rnd) ==
    /\ LET r == get_move(heap, b, self, rnd)
       IN /\ heap' = Release(r.heap, heap)
          /\ last' = CallWith(Call("get_move", "b", self.player_id, 0, FALSE,
                                   FALSE, <<>>),
                              [self |-> self, rnd |-> rnd, move |-> r.ret,
                               legal |-> legal_moves(heap, b, self.player_id).ret])
    /\ Spend
    /\ UNCHANGED <<b, c, gui, cli>>

InitCpu ==
    \E pits_per_side \in 1..MaxPitsPerSide, initial_stones \in 1..OpeningStones :
        /\ 2 * pits_per_side * initial_stones <= MaxCpuStones
        /\ LET r == Board(EmptyHeap, pits_per_side, initial_stones)
           IN InitBoardOn(r.heap, r.ret, MaxCpuCalls)

NextCpu ==
    \/ \E player \in Players, pit_index \in 0..(b.total_pits - 1) :
           Move(player, pit_index)
    \/ \E difficulty \in Difficulties, k \in 1..b.pits_per_side :
           \E low \in IF difficulty = "Medium" THEN BOOLEAN ELSE {FALSE} :
               GetMove(CPUPlayer(1, difficulty), [k |-> k, low |-> low])

SpecCpu == InitCpu /\ [][NextCpu]_vars

\* C12: the Search Engine never mutates the live board: for every tier and
\* board, get_move returns with every pit count and both scores as before.
C12_SearchLeavesBoard ==
    last.op = "get_move" => Live = last.before_b

\* the Hard tier ran its minimax and returned a move
C12_Witness ==
    /\ last.op = "get_move"
    /\ last.self.difficulty = "Hard"
    /\ SumAt(Live.pits, AllPits(b)) # b.total_pits * OpeningStones
    /\ last.move # NoMove
    /\ Live = last.before_b

\* the board as it was before the last call, on the heap
Before == LoadPosition(heap, b, last.before_b.pits, last.before_b.scores)

\* C13: get_move returns the sentinel -1 exactly when legal_moves(board,
\* player_id) is empty; otherwise, for every tier, board and outcome of the
\* random choices, it returns a member of legal_moves(board, player_id).
C13_MoveIsLegal ==
    last.op = "get_move" =>
        /\ last.move = NoMove <=> last.legal = <<>>
        /\ last.legal # <<>> => last.move \in Range(last.legal)

\* a tier returned one of several legal moves
C13_Witness ==
    /\ last.op = "get_move"
    /\ Len(last.legal) > 1
    /\ last.move \in Range(last.legal)

\* a tier returned the sentinel
C13_WitnessSentinel ==
    /\ last.op = "get_move"
    /\ last.legal = <<>>
    /\ last.move = NoMove

\* what a real apply_move of the move adds to the mover's score
ImmediateCapture(h, board, player, move) ==
    LET ch == Child(h, board, player, move)
    IN ScoresOf(ch.heap, ch.board)[player] - ScoresOf(h, board)[player]

\* C14: when Medium does not take its random branch, the move returned is the
\* legal move with the largest immediate capture for the mover, and among
\* moves of equal capture the one with the lowest pit index.
C14_MediumGreedy ==
    (/\ last.op = "get_move"
     /\ last.self.difficulty = "Medium"
     /\ ~last.rnd.low
     /\ last.legal # <<>>) =>
        LET gain(m) == ImmediateCapture(Before.heap, Before.ret,
                                        last.self.player_id, m)
        IN \A m \in Range(last.legal) :
               \/ gain(last.move) > gain(m)
               \/ gain(last.move) = gain(m) /\ last.move <= m

\* every pit holds initial_stones
InitialConfiguration(board, pits) ==
    \A i \in DOMAIN pits : pits[i] = board.initial_stones

\* C15: Hard takes the uniform-random branch only in the exact initial
\* configuration; on every other board on which the mover has a legal move
\* the returned move is the one chosen by the depth-4 alpha-beta minimax.
C15_HardOpeningRule ==
    (/\ last.op = "get_move"
     /\ last.self.difficulty = "Hard"
     /\ last.legal # <<>>
     /\ ~InitialConfiguration(b, last.before_b.pits)) =>
        last.move = _minimax(Before.heap, Before.ret, last.self,
                             last.self.max_depth, -Infinity, Infinity, TRUE).move

\* C16: on a board that is not in the exact initial configuration and on
\* which the mover has a legal move, Hard get_move returns the same pit index
\* whatever the random source yields.
C16_HardDeterminism ==
    (/\ last.op = "get_move"
     /\ last.self.difficulty = "Hard"
     /\ last.legal # <<>>
     /\ ~InitialConfiguration(b, last.before_b.pits)) =>
        \A k \in 1..b.pits_per_side :
            get_move(Before.heap, Before.ret, last.self,
                     [k |-> k, low |-> FALSE]).ret = last.move

(* -------- live execution against the lookahead -------- *)

\* _capture_on_list on the sown list of the last move
Looked == _capture_on_list(Sown.pits, Sown.idx, last.player, b.pits_per_side)

\* C30: live execution matches the lookahead: for every accepted move the pit
\* counts left on the live board by Board.sow_from and the in-place capture
\* loop equal the list computed by _sow_list and _capture_on_list on the
\* pre-move counts, and the amount added to the mover's score equals the
\* simulated captured total, also for sows of total_pits or more stones.
C30_LiveMatchesLookahead ==
    Accepted
        => /\ Live.pits = Looked.pits
           /\ Live.scores[last.player]
                  = last.before_b.scores[last.player] + Looked.captured
           /\ Live.scores[opponent(last.player)]
                  = last.before_b.scores[opponent(last.player)]

\* an accepted sow of total_pits or more stones lapped the board
C30_Witness ==
    /\ Accepted
    /\ last.before_b.pits[last.pit] >= b.total_pits
    /\ Live.pits[last.pit] > 0
    /\ Live.pits = Looked.pits

\* an accepted move captured what the lookahead captured
C30_WitnessCapture ==
    /\ Accepted
    /\ Looked.captured > 0
    /\ b.pits_per_side = MaxPlayPitsPerSide
    /\ Live.scores[last.player]
           = last.before_b.scores[last.player] + Looked.captured

(* -------- legal_moves against apply_move -------- *)

\* legal_moves(board, player) on the board as it was before the last call
LegalBefore(player) == legal_moves(Before.heap, Before.ret, player).ret

\* C29: legal_moves and apply_move agree: for every board, player and pit
\* index, apply_move(board, player, pit, simulate_only=True) returns True if
\* and only if pit is a member of legal_moves(board, player); the same holds
\* of the call that applies the move.
C29_LegalMovesAgree ==
    last.op = "apply_move"
        => (last.ret <=> last.pit \in Range(LegalBefore(last.player)))

\* a simulate-only call refused a non-empty pit of the mover that
\* legal_moves leaves out
C29_Witness ==
    /\ last.op = "apply_move" /\ last.sim /\ ~last.ret
    /\ last.pit \in NonEmptyPits(b, last.before_b.pits, last.player)
    /\ last.pit \notin Range(LegalBefore(last.player))
    /\ LegalBefore(last.player) # <<>>

\* a simulate-only call accepted a move that starves the opponent, listed by
\* legal_moves because no move feeds the opponent
C29_WitnessStarving ==
    /\ last.op = "apply_move" /\ last.sim /\ last.ret
    /\ FeedingPits(b, last.before_b.pits, last.player) = {}
    /\ last.pit \in Range(LegalBefore(last.player))

(* -------- the end of a board's life -------- *)

\* no call can change the board held at board on heap h: legal_moves is
\* empty for both players and apply_move refuses every pit index
Dead(h, board) ==
    \A player \in Players :
        /\ legal_moves(h, board, player).ret = <<>>
        /\ \A pit_index \in PitInputs(board), simulate_only \in BOOLEAN :
               ~apply_move(h, board, player, pit_index, simulate_only).ret

AllZero(pits) == \A i \in DOMAIN pits : pits[i] = 0

\* C28: after the end-of-game sweep has run on a board with an empty side,
\* legal_moves returns the empty sequence for both players and apply_move
\* returns False for every pit index and either player, so the board can no
\* longer change.
C28_LifecycleEnd ==
    /\ (last.op = "game_end_sweep" /\ last.ret)
           => AllZero(Live.pits) /\ Dead(heap, b)
    /\ AllZero(last.before_b.pits)
           => /\ Live = last.before_b
              /\ last.op = "apply_move" => ~last.ret
              /\ last.op = "legal_moves" => last.moves = <<>>

\* the sweep collected the stones of the non-empty side
C28_Witness ==
    /\ last.op = "game_end_sweep" /\ last.ret
    /\ ~AllZero(last.before_b.pits)
    /\ Dead(heap, b)

\* apply_move was refused on a swept board for a pit of the mover
C28_WitnessRefused ==
    /\ last.op = "apply_move" /\ ~last.ret
    /\ AllZero(last.before_b.pits)
    /\ last.before_b.scores[0] + last.before_b.scores[1]
           = b.total_pits * b.initial_stones
    /\ last.pit \in Range(player_pit_indices(b, last.player))

(* -------- game.py: the text game -------- *)

\* the rounds that end before the prompt
Unasked == {"empty side", "no legal moves"}

\* one round of simple_cli's loop; the round's input is kept only if the
\* round asked for it
CliRound(raw) ==
    /\ cli.state = "in progress"
    /\ LET r == simple_cli(heap, b, cli.player, raw)
       IN /\ heap' = r.heap
          /\ cli' = [player |-> r.player, state |-> r.state]
          /\ last' = CallWith(Call("simple_cli", "b", cli.player, 0, FALSE,
                                   r.branch = "applied", <<>>),
                              [raw |-> IF r.branch \in Unasked THEN Quit ELSE raw,
                               branch |-> r.branch,
                               before_cli |-> cli])
    /\ Spend
    /\ UNCHANGED <<b, c, gui>>

\* simple_cli() is called instead of the game window: player = 0 and the
\* loop is entered
CliStart ==
    /\ cli.state = "not run"
    /\ ~gui.started
    /\ cli' = [player |-> 0, state |-> "in progress"]
    /\ last' = CallWith(Call("simple_cli", "b", 0, 0, FALSE, FALSE, <<>>),
                        [raw |-> Quit, branch |-> "called", before_cli |-> cli])
    /\ UNCHANGED <<heap, b, c, budget, gui>>

\* simple_cli on a board of up to MaxPitsPerSide pits a side, played to the
\* end
InitCli == InitWith(-1)

NextCli ==
    \/ CliStart
    \/ \E raw \in {Quit, NotANumber} \cup {Number(n) : n \in PitInputs(b)} :
           CliRound(raw)

SpecCli == InitCli /\ [][NextCli]_vars

\* a side of the board is empty in the list pits
SomeSideEmpty(board, pits) ==
    SideEmpty(board, pits, 0) \/ SideEmpty(board, pits, 1)

\* C27: the defensive 'no legal moves' branch of the controller is
\* unreachable in play: in every state reachable by legal moves from the
\* initial board, whenever neither side is empty, legal_moves for the acting
\* player is non-empty.
C27_NoLegalMovesUnreachable ==
    /\ last.op = "simple_cli" => last.branch # "no legal moves"
    /\ ~SomeSideEmpty(b, Live.pits)
           => legal_moves(heap, b, cli.player).ret # <<>>

\* the controller is past the empty-side check and every move of the acting
\* player starves the opponent: legal_moves is non-empty by the exception
C27_Witness ==
    /\ last.op = "simple_cli" /\ last.branch = "applied"
    /\ ~SomeSideEmpty(b, Live.pits)
    /\ FeedingPits(b, Live.pits, cli.player) = {}
    /\ legal_moves(heap, b, cli.player).ret # <<>>

\* what holds after every round of the controller for C26
EndOrdering ==
    /\ last.op = "simple_cli"
           => /\ SomeSideEmpty(b, last.before_b.pits)
                     => /\ last.branch = "empty side"
                        /\ cli.state = "ended"
                        /\ Live = Swept(b, last.before_b)
              /\ last.branch \notin Unasked
                     => ~SomeSideEmpty(b, last.before_b.pits)
              /\ last.ret => Live # last.before_b
              /\ ~last.ret /\ last.branch \notin Unasked
                     => Live = last.before_b
    /\ cli.state = "ended"
           => /\ last.op = "simple_cli" /\ last.branch \in Unasked
              /\ AllZero(Live.pits)

\* C26: end-of-game ordering: at the start of every turn, if either side is
\* empty the controller sweeps and moves to 'ended' before any move is
\* requested; so no move is ever applied to a board on which a side is empty,
\* and once 'ended' is reached no further move is applied and the state
\* never returns to 'in progress'.
C26_EndOrdering ==
    /\ []EndOrdering
    /\ [][cli.state = "ended"
              => cli'.state = "ended" /\ View(heap', b') = View(heap, b)]_vars

\* the controller found a side empty at the start of a turn, swept the
\* stones of the other side and ended
C26_Witness ==
    /\ last.op = "simple_cli" /\ last.branch = "empty side"
    /\ cli.state = "ended"
    /\ last.before_cli.state = "in progress"
    /\ ~AllZero(last.before_b.pits)
    /\ AllZero(Live.pits)

\* simple_cli: the player changes exactly when the chosen move was applied;
\* a refused choice changes nothing and the same player is asked again
CliAlternation ==
    last.op = "simple_cli"
        => /\ cli.player # last.before_cli.player <=> last.ret
           /\ last.ret
                  => /\ last.raw.kind = "int"
                     /\ cli.player = 1 - last.before_cli.player
                     /\ Live = View(apply_move(Before.heap, Before.ret,
                                               last.before_cli.player,
                                               last.raw.value, FALSE).heap,
                                    Before.ret)
                     /\ Live # last.before_b
           /\ last.branch \in {"illegal choice", "rejected", "no number"}
                  => /\ cli = last.before_cli
                     /\ cli.state = "in progress"
                     /\ Live = last.before_b

\* the move of the animation that just ended, applied to the board as it was
FlashedMove ==
    apply_move(Before.heap, Before.ret, last.before_gui.player, last.pit, FALSE)

\* C25 as stated: in both controllers the acting player changes to the other
\* player exactly when the chosen move has been successfully applied by
\* apply_move.
C25_AlternationAsStated ==
    /\ CliAlternation
    /\ last.op = "_flash_sequence"
           => (gui.player # last.before_gui.player <=> FlashedMove.ret)

\* C25: turn alternation: in simple_cli the acting player changes to the
\* other player exactly when a chosen move has been applied by apply_move; in
\* the game window's _flash_sequence an applied move passes the turn to the
\* other player unless it empties a side: then the end-of-game sweep runs at
\* once and the window goes back to the menu with player 0.  A choice that
\* is not in legal_moves, or that apply_move rejects, leaves the acting
\* player, every pit count and both scores unchanged, and the same player is
\* asked again.
C25_TurnAlternation ==
    /\ CliAlternation
    /\ last.op = "_flash_sequence"
           => LET after == View(FlashedMove.heap, Before.ret)
                  ended == SomeSideEmpty(b, after.pits)
              IN /\ last.ret = FlashedMove.ret
                 /\ gui.player # last.before_gui.player => FlashedMove.ret
                 /\ FlashedMove.ret /\ ~ended
                        => Live = after /\ gui.player = 1 - last.before_gui.player
                 /\ FlashedMove.ret /\ ended
                        => /\ last.branch = "endgame"
                           /\ last.final = Swept(b, after)
                           /\ ~gui.started /\ gui.player = 0
                 /\ ~FlashedMove.ret => Live = last.before_b
                 /\ ~gui.animating
    /\ (last.op = "_on_pit_click" /\ last.branch = "illegal")
           => /\ Live = last.before_b
              /\ gui = last.before_gui

\* a move applied in the game window emptied a side: the board was swept and
\* the turn did not pass to the other player
C25_Witness ==
    /\ last.op = "_flash_sequence" /\ last.branch = "endgame"
    /\ FlashedMove.ret
    /\ gui.player = last.before_gui.player
    /\ ~AllZero(last.before_b.pits)

\* a move applied in the game window passed the turn to the other player
C25_WitnessWindow ==
    /\ last.op = "_flash_sequence" /\ last.branch = "applied"
    /\ gui.player = 1 - last.before_gui.player
    /\ Live # last.before_b

\* a move was applied in the text game and the turn passed to the other player
C25_WitnessCli ==
    /\ last.op = "simple_cli" /\ last.ret
    /\ cli.player = 1 - last.before_cli.player
    /\ Live # last.before_b

\* a non-empty pit of the acting player that is not a legal move was chosen
\* and the same player is asked again
C25_WitnessIllegal ==
    /\ last.op = "simple_cli" /\ last.branch = "illegal choice"
    /\ last.raw.value \in NonEmptyPits(b, Live.pits, cli.player)
    /\ cli = last.before_cli

(* -------- gui_core.py: the events of the game window -------- *)

\* the record of a GUI handler's run
GuiCall(op, pit, ret, branch) ==
    CallWith(Call(op, "b", gui.player, pit, FALSE, ret, <<>>),
             [branch |-> branch, before_gui |-> gui])

\* a sequence without its i-th element
Remove(seq, i) == SubSeq(seq, 1, i - 1) \o SubSeq(seq, i + 1, Len(seq))

\* a menu button of the game window: 1vs1, or vs AI with the difficulty chosen
StartGame(vs_ai, difficulty) ==
    /\ ~gui.started
    /\ cli.state = "not run"
    /\ gui' = start_game(gui, vs_ai, difficulty)
    /\ last' = GuiCall("start_game", 0, FALSE, difficulty)
    /\ Spend
    /\ UNCHANGED <<heap, b, c, cli>>

\* a click on the canvas item of a pit
OnPitClick(pit_idx) ==
    /\ gui.started
    /\ LET r == _on_pit_click(heap, b, gui, pit_idx)
       IN /\ heap' = r.heap
          /\ gui' = r.gui
          /\ last' = GuiCall("_on_pit_click", pit_idx, r.branch = "started",
                             r.branch)
    /\ Spend
    /\ UNCHANGED <<b, c, cli>>

\* the timer callback after the last flash of the i-th animation under way
FlashSequenceEnd(i) ==
    /\ i \in 1..Len(gui.flashing)
    /\ LET r == _flash_sequence(heap, b, [gui EXCEPT !.flashing = Remove(@, i)],
                                gui.flashing[i])
       IN /\ heap' = r.heap
          /\ b' = r.board
          /\ gui' = r.gui
          /\ last' = CallWith(GuiCall("_flash_sequence", gui.flashing[i],
                                      r.branch # "rejected", r.branch),
                              [final |-> r.final])
    /\ Spend
    /\ UNCHANGED <<c, cli>>

\* a timer set by _flash_sequence calls _execute_cpu_turn
ExecuteCpuTurn(rnd) ==
    /\ gui.timers > 0
    /\ LET r == _execute_cpu_turn(heap, b, [gui EXCEPT !.timers = @ - 1], rnd)
       IN /\ heap' = r.heap
          /\ gui' = r.gui
          /\ last' = CallWith(GuiCall("_execute_cpu_turn", 0,
                                      r.branch = "started", r.branch),
                              [rnd |-> rnd])
    /\ Spend
    /\ UNCHANGED <<b, c, cli>>

\* the Trigger Endgame button
TriggerEndgame ==
    /\ gui.started
    /\ LET r == _trigger_endgame(heap, b, gui)
       IN /\ heap' = r.heap
          /\ b' = r.board
          /\ gui' = r.gui
          /\ last' = CallWith(GuiCall("_trigger_endgame", 0, r.branch = "swept",
                                      r.branch),
                              [final |-> r.final])
    /\ Spend
    /\ UNCHANGED <<c, cli>>

\* the Undo button
PerformUndo ==
    /\ gui.started
    /\ \E r \in {perform_undo(heap, b, gui)} :
          /\ heap' = r.heap
          /\ b' = r.board
          /\ gui' = r.gui
          /\ last' = GuiCall("perform_undo", 0, r.branch = "undone", r.branch)
    /\ Spend
    /\ UNCHANGED <<c, cli>>

\* the Redo button
PerformRedo ==
    /\ gui.started
    /\ \E r \in {perform_redo(heap, b, gui)} :
          /\ heap' = r.heap
          /\ b' = r.board
          /\ gui' = r.gui
          /\ last' = GuiCall("perform_redo", 0, r.branch = "redone", r.branch)
    /\ Spend
    /\ UNCHANGED <<c, cli>>

InitGui == InitWith(MaxGuiCalls)

NextGui ==
    \/ \E vs_ai \in BOOLEAN :
           \E difficulty \in IF vs_ai THEN Difficulties ELSE {"Medium"} :
               StartGame(vs_ai, difficulty)
    \/ \E pit_idx \in 0..(b.total_pits - 1) : OnPitClick(pit_idx)
    \/ \E i \in 1..Len(gui.flashing) : FlashSequenceEnd(i)
    \/ \E k \in 1..b.pits_per_side :
           \E low \in IF gui.vs_ai /\ gui.cpu_player.difficulty = "Medium"
                      THEN BOOLEAN ELSE {FALSE} :
               ExecuteCpuTurn([k |-> k, low |-> low])
    \/ TriggerEndgame
    \/ PerformUndo
    \/ PerformRedo

SpecGui == InitGui /\ [][NextGui]_vars

(* -------- either controller: the text game or the game window -------- *)

NextGame == NextCli \/ NextGui

SpecGame == InitGui /\ [][NextGame]_vars

(* -------- cpu.py: the search of the Hard tier -------- *)

\* scores of a game in progress when the search is asked: nothing captured
\* yet, a player at exactly WinScore, a player past it
SearchScores ==
    {<<0, 0>>, <<WinScore, 0>>, <<WinScore + 1, 0>>, <<0, WinScore + 1>>}

InitSearch ==
    \E pits_per_side \in 1..MaxPitsPerSide, initial_stones \in 1..MaxInitialStones,
       scores \in SearchScores :
        /\ 2 * pits_per_side * initial_stones <= MaxStones
        /\ LET r == Board(EmptyHeap, pits_per_side, initial_stones)
               l == LoadPosition(r.heap, r.ret, PlainPits(r.heap, r.ret),
                                 ListOf(scores))
           IN InitBoardOn(l.heap, l.ret, MaxSearchCalls)

\* self._minimax(board, depth, float('-inf'), float('inf'), maximizing): the
\* root call of get_move (maximizing) or a call for the opponent's turn
Minimax(self, depth, maximizing) ==
    /\ \E r \in {_minimax(heap, b, self, depth, -Infinity, Infinity, maximizing)} :
          /\ heap' = Release(r.heap, heap)
          /\ last' = CallWith(Call("_minimax", "b", self.player_id, 0, FALSE,
                                   FALSE, <<>>),
                              [self |-> self, depth |-> depth,
                               maximizing |-> maximizing, val |-> r.val,
                               move |-> r.move, expanded |-> r.expanded,
                               width |-> r.width, count |-> r.count,
                               calls |-> r.calls,
                               node |-> r.node,
                               legal |-> legal_moves(heap, b,
                                             IF maximizing THEN self.player_id
                                             ELSE 1 - self.player_id).ret])
    /\ Spend
    /\ UNCHANGED <<b, c, gui, cli>>

NextSearch ==
    \/ \E player \in Players, pit_index \in 0..(b.total_pits - 1) :
           Move(player, pit_index)
    \/ \E player_id \in Players, depth \in 0..HardDepth, maximizing \in BOOLEAN :
           Minimax(CPUPlayer(player_id, "Hard"), depth, maximizing)
    \/ \E k \in 1..b.pits_per_side :
           GetMove(CPUPlayer(1, "Hard"), [k |-> k, low |-> FALSE])

SpecSearch == InitSearch /\ [][NextSearch]_vars

\* the three end conditions of _minimax for the last root call
Terminal ==
    \/ last.depth = 0
    \/ last.legal = <<>>
    \/ last.before_b.scores[0] > WinScore
    \/ last.before_b.scores[1] > WinScore

\* C22: minimax terminal nodes: _minimax returns (scores[AI] - scores[opponent
\* of AI], no move) without expanding any child exactly when the remaining
\* depth is 0, or the player to act has no legal move, or either player's
\* score is strictly greater than 24; a node where a score is exactly 24 and
\* the other conditions do not hold is expanded.
C22_TerminalNodes ==
    last.op = "_minimax"
        => /\ Terminal
               => /\ last.val = last.before_b.scores[last.self.player_id]
                                  - last.before_b.scores[1 - last.self.player_id]
                  /\ last.move = None
                  /\ last.expanded = 0 /\ last.calls = {}
           /\ ~Terminal
               => /\ last.expanded >= 1 /\ last.calls # {}
                  /\ last.move \in Range(last.legal)

\* a position with a score of exactly 24 was expanded
C22_Witness ==
    /\ last.op = "_minimax"
    /\ WinScore \in Range(last.before_b.scores)
    /\ ~Terminal
    /\ last.expanded >= 1

\* a position with a score of 25 and legal moves was not expanded
C22_WitnessWon ==
    /\ last.op = "_minimax"
    /\ last.depth > 0 /\ last.legal # <<>>
    /\ last.before_b.scores[0] = WinScore + 1
    /\ last.expanded = 0 /\ last.move = None
    /\ last.val = -(WinScore + 1)

\* the search stopped at a position where the player to act cannot move
C22_WitnessNoMove ==
    /\ last.op = "_minimax"
    /\ last.depth > 0 /\ last.legal = <<>>
    /\ ~Won(last.before_b.scores)
    /\ last.expanded = 0

RECURSIVE Exact(_, _, _, _, _)
RECURSIVE ExactLoop(_, _, _, _, _, _, _, _)

\* the recursion of _minimax with the 'beta <= alpha' cut-off removed: every
\* legal move of every node is tried; count is the number of calls made
ExactLoop(h, board, self, depth, maximizing, legal, k, best) ==
    IF k > Len(legal) THEN best
    ELSE The({
        LET better == IF maximizing THEN r.val > best.val ELSE r.val < best.val
        IN The({ExactLoop(h, board, self, depth, maximizing, legal, k + 1, nbest)
                : nbest \in {[val |-> IF better THEN r.val ELSE best.val,
                              move |-> IF better THEN legal[k] ELSE best.move,
                              count |-> best.count + r.count + 1]}})
        : r \in {The({Exact(ch.heap, ch.board, self, depth - 1, ~maximizing)
                      : ch \in {Child(h, board,
                                      IF maximizing THEN self.player_id
                                      ELSE 1 - self.player_id, legal[k])}})}})

Exact(h, board, self, depth, maximizing) ==
    The({
        LET scores == ScoresOf(h, board)
        IN IF depth = 0 \/ legal = <<>> \/ Won(scores)
           THEN [val |-> scores[self.player_id] - scores[1 - self.player_id],
                 move |-> None, count |-> 0]
           ELSE ExactLoop(h, board, self, depth, maximizing, legal, 1,
                          [val |-> IF maximizing THEN -Infinity ELSE Infinity,
                           move |-> None, count |-> 0])
        : legal \in {legal_moves(h, board, IF maximizing THEN self.player_id
                                           ELSE 1 - self.player_id).ret}})

\* the search without cut-off on the position of the last call
ExactLast == Exact(Before.heap, Before.ret, last.self, last.depth, last.maximizing)

\* the lowest-index legal moves whose child has the value val
BestMoves(val) ==
    {m \in Range(last.legal) :
        LET current_player == IF last.maximizing THEN last.self.player_id
                              ELSE 1 - last.self.player_id
            ch == Child(Before.heap, Before.ret, current_player, m)
        IN Exact(ch.heap, ch.board, last.self, last.depth - 1,
                 ~last.maximizing).val = val}

\* C23: pruning preserves the result: for every board, the (value, move)
\* returned by the root call _minimax(board, depth, -inf, +inf, True) equals
\* what the same recursion returns with the 'beta <= alpha' cut-off removed:
\* the exact depth-limited minimax value and the lowest-index legal move that
\* achieves it.
C23_PruningPreservesResult ==
    last.op = "_minimax"
        => The({/\ last.val = e.val
                /\ last.move = e.move
                /\ last.count <= e.count
                /\ last.move # None
                       => /\ last.move \in BestMoves(last.val)
                          /\ \A m \in BestMoves(last.val) : last.move <= m
                : e \in {ExactLast}})

\* a root call where the cut-off skipped part of the tree and the result
\* is the one of the full search
C23_Witness ==
    /\ last.op = "_minimax"
    /\ last.maximizing
    /\ last.move # None
    /\ last.count < ExactLast.count
    /\ last.val = ExactLast.val /\ last.move = ExactLast.move

\* the best move of a root call is not the first legal move
C23_WitnessLaterMove ==
    /\ last.op = "_minimax"
    /\ last.maximizing
    /\ last.move # None
    /\ last.move # last.legal[1]
    /\ last.move = ExactLast.move

RECURSIVE Geometric(_, _)
\* n + n^2 + ... + n^d: the calls below the root of a tree of depth d whose
\* nodes have n children each
Geometric(n, d) == IF d = 0 THEN 0 ELSE n * (1 + Geometric(n, d - 1))

\* C24: search termination: every call _minimax(board, d, ...) with d >= 0
\* terminates; each recursive call is made with depth exactly one less than
\* its parent and with the maximizing flag flipped, so the recursion depth
\* below the root never exceeds d (4 for the Hard tier) and each node expands
\* at most pits_per_side children.
C24_SearchTermination ==
    last.op = "_minimax"
        => /\ last.node = [depth |-> last.depth, maximizing |-> last.maximizing]
           /\ \A call \in last.calls :
                  /\ call.child.depth = call.parent.depth - 1
                  /\ call.child.maximizing = ~call.parent.maximizing
                  /\ call.child.depth \in 0..(last.depth - 1)
                  /\ last.depth - call.child.depth \in 1..HardDepth
           /\ last.expanded <= b.pits_per_side
           /\ last.width <= b.pits_per_side
           /\ last.count <= Geometric(b.pits_per_side, last.depth)

\* a Hard-tier root call went down all 4 levels and some node tried a move
\* from every pit of its side
C24_Witness ==
    /\ last.op = "_minimax"
    /\ last.depth = HardDepth /\ last.maximizing
    /\ b.pits_per_side > 1
    /\ last.width = b.pits_per_side
    /\ \E call \in last.calls : call.child.depth = 0
    /\ Cardinality(last.calls) = 4

\* the root call made by the last get_move of the Hard tier
RootOfGetMove ==
    _minimax(Before.heap, Before.ret, last.self, last.self.max_depth,
             -Infinity, Infinity, TRUE)

\* the last call was a get_move of the Hard tier that ran the search
Searched ==
    /\ last.op = "get_move"
    /\ last.self.difficulty = "Hard"
    /\ last.legal # <<>>
    /\ SumAt(last.before_b.pits, AllPits(b)) # b.total_pits * OpeningStones

\* C21: in Hard tier, the root minimax call made by get_move returns no move
\* (None), forcing the uniform-random fallback, only when the acting player
\* has no legal move; whenever the mover has at least one legal move, the
\* root call returns one of those legal moves.
C21_RootReturnsLegalMove ==
    Searched => RootOfGetMove.move \in Range(last.legal)

(* -------- rules.py: what a move does to the scores and to the mover's side -------- *)

\* the pits emptied by the capture step of the last move: those that differ
\* from the pits as sown
Removed == {j \in DOMAIN Sown.pits : Live.pits[j] # Sown.pits[j]}

\* the stones the sow had left in the pits of Removed
RemovedStones ==
    SumAt(Sown.pits, SelectSeq(AllPits(b), LAMBDA j : j \in Removed))

\* C31: score frame of a move: an accepted apply_move by player P increases
\* scores[P] by exactly the number of stones removed from the opponent's pits
\* by the capture chain (0, or a sum of 2s and 3s) and never changes
\* scores[1-P]; across any sequence of moves and sweeps neither score ever
\* decreases and no pit count is ever negative.
C31_ScoreFrame ==
    /\ Accepted
           => /\ \A j \in Removed :
                     /\ pit_owner(b, j) = opponent(last.player)
                     /\ Sown.pits[j] \in {2, 3}
                     /\ Live.pits[j] = 0
              /\ Live.scores[last.player]
                     = last.before_b.scores[last.player] + RemovedStones
              /\ Live.scores[opponent(last.player)]
                     = last.before_b.scores[opponent(last.player)]
    /\ \A p \in Players : Live.scores[p] >= last.before_b.scores[p]
    /\ \A j \in DOMAIN Live.pits : Live.pits[j] >= 0

\* a move captured while the opponent already had a score, which stayed
C31_Witness ==
    /\ Accepted
    /\ RemovedStones >= 2
    /\ last.before_b.scores[opponent(last.player)] > 0
    /\ Live.scores[opponent(last.player)]
           = last.before_b.scores[opponent(last.player)]
    /\ Live.scores[last.player] = last.before_b.scores[last.player] + RemovedStones

\* a sweep raised a score
C31_WitnessSweep ==
    /\ last.op = "game_end_sweep" /\ last.ret
    /\ \E p \in Players : Live.scores[p] > last.before_b.scores[p]

\* C32: captures stay on the opponent's side: for either mover, the capture
\* step of apply_move never zeroes a pit owned by the mover, including at the
\* two wrap-around boundaries (stepping back from index pits_per_side when
\* player 0 moves, and from index 0 to index total_pits-1 when player 1
\* moves); the capture loop always terminates after capturing at most
\* pits_per_side pits.
C32_CapturesStayOpposite ==
    Accepted
        => /\ \A j \in DOMAIN Live.pits :
                  pit_owner(b, j) = last.player => Live.pits[j] = Sown.pits[j]
           /\ \A j \in Removed : pit_owner(b, j) = opponent(last.player)
           /\ Cardinality(Removed) <= b.pits_per_side
           /\ LET listed == _capture_on_list(Sown.pits, Sown.idx, last.player,
                                             b.pits_per_side).pits
              IN \A j \in DOMAIN listed :
                     pit_owner(b, j) = last.player => listed[j] = Sown.pits[j]

\* player 0 captured the pit at index pits_per_side while its own last pit,
\* the next one back, held 2 or 3 and kept them
C32_Witness ==
    /\ Accepted
    /\ last.player = 0
    /\ b.pits_per_side \in Removed
    /\ Sown.pits[b.pits_per_side - 1] \in {2, 3}
    /\ Live.pits[b.pits_per_side - 1] = Sown.pits[b.pits_per_side - 1]

\* player 1 captured the pit at index 0 while its own last pit, at index
\* total_pits-1, held 2 or 3 and kept them
C32_WitnessWrap ==
    /\ Accepted
    /\ last.player = 1
    /\ 0 \in Removed
    /\ Sown.pits[b.total_pits - 1] \in {2, 3}
    /\ Live.pits[b.total_pits - 1] = Sown.pits[b.total_pits - 1]

(* -------- gui_core.py: undo and redo -------- *)

\* a saved state as values: the pit counts of its board, its scores list and
\* its player
StateView(h, state) ==
    [pits |-> PlainPits(h, state.board), scores |-> h.list[state.scores],
     player |-> state.player]

\* what the window shows and keeps: the board, the acting player and both
\* stacks, as values
GuiView(h, board, g) ==
    [board |-> View(h, board),
     player |-> g.player,
     history_stack |-> [i \in DOMAIN g.history_stack |->
                            StateView(h, g.history_stack[i])],
     redo_stack |-> [i \in DOMAIN g.redo_stack |->
                         StateView(h, g.redo_stack[i])]]

RECURSIVE Redone(_, _)
\* n calls of perform_redo after the result r of a handler
Redone(r, n) ==
    IF n = 0 THEN r ELSE Redone(perform_redo(r.heap, r.board, r.gui), n - 1)

\* perform_undo in the current state
Undone == perform_undo(heap, b, gui)

\* the states the undo stepped back
Stepped == Len(gui.history_stack) - Len(Undone.gui.history_stack)

\* C33: undo/redo round trip in the GUI controller: when no animation is
\* running, perform_undo followed by as many perform_redo calls as states the
\* undo stepped back (1, or 2 in vs-AI mode on the human's turn with at least
\* two history entries) restores the board's pit counts, both scores, the
\* acting player and the contents of the history stack to what they were
\* before the undo, and leaves the redo stack as it was.
C33_UndoRedoRoundTrip ==
    (gui.started /\ ~gui.animating /\ gui.history_stack # <<>>)
        => /\ Stepped = undo_steps(gui)
           /\ Stepped \in {1, 2}
           /\ Stepped = 2 <=> /\ gui.vs_ai /\ gui.player = 0
                              /\ Len(gui.history_stack) >= 2
           /\ Len(Undone.gui.redo_stack) = Len(gui.redo_stack) + Stepped
           /\ LET back == Redone(Undone, Stepped)
              IN GuiView(back.heap, back.board, back.gui) = GuiView(heap, b, gui)

\* an undo of two states on the human's turn of a game against the computer,
\* taken back by two redos, with the position changed in between
C33_Witness ==
    /\ gui.started /\ ~gui.animating
    /\ gui.vs_ai /\ gui.player = 0
    /\ Stepped = 2
    /\ View(Undone.heap, Undone.board) # Live
    /\ LET back == Redone(Undone, 2)
       IN GuiView(back.heap, back.board, back.gui) = GuiView(heap, b, gui)

\* an undo of one state with states already on the redo stack
C33_WitnessRedoKept ==
    /\ gui.started /\ ~gui.animating
    /\ gui.history_stack # <<>>
    /\ gui.redo_stack # <<>>
    /\ Stepped = 1
    /\ Live # View(Undone.heap, Undone.board)
    /\ Len(Redone(Undone, 1).gui.redo_stack) = Len(gui.redo_stack)

\* the Undo and Redo buttons were used in a game
C33_WitnessButtons ==
    /\ last.op = "perform_redo" /\ last.ret
    /\ Live # last.before_b

(* -------- gui_core.py: user events and timer callbacks interleaved -------- *)

\* the window followed long enough for two timers of the computer's turn to
\* be pending
InitTimers == InitWith(MaxTimerCalls)

\* the events of a game against the computer of the Easy tier
NextTimers ==
    \/ StartGame(TRUE, "Easy")
    \/ \E pit_idx \in 0..(b.total_pits - 1) : OnPitClick(pit_idx)
    \/ \E i \in 1..Len(gui.flashing) : FlashSequenceEnd(i)
    \/ \E k \in 1..b.pits_per_side : ExecuteCpuTurn([k |-> k, low |-> FALSE])
    \/ TriggerEndgame
    \/ PerformUndo
    \/ PerformRedo

SpecTimers == InitTimers /\ [][NextTimers]_vars

\* the handlers other than the end of a move's own animation
OtherEvents ==
    {"_on_pit_click", "perform_undo", "perform_redo", "_trigger_endgame",
     "_execute_cpu_turn"}

\* C34: one move in flight at a time in the GUI controller: while the
\* animating flag is true (a move has been started and its apply_move is
\* still pending), no other move is started and the board is not changed by
\* any other event: pit clicks, undo, redo, Trigger Endgame and the
\* timer-scheduled CPU turn (_execute_cpu_turn) are all ignored, under every
\* interleaving of user events and timer callbacks.
C34_OneMoveInFlight ==
    (last.op \in OtherEvents /\ last.before_gui.animating)
        => /\ ~last.ret
           /\ Live = last.before_b
           /\ gui.flashing = last.before_gui.flashing
           /\ gui.player = last.before_gui.player
           /\ Len(gui.history_stack) = Len(last.before_gui.history_stack)
           /\ Len(gui.redo_stack) = Len(last.before_gui.redo_stack)

====
